---- MODULE Spec2Model ----
(***************************************************************************)
(* A model of gpm, a package manager client written in Go.                 *)
(*                                                                         *)
(*   - version resolution      (package_manager.go: getPackageInfo,        *)
(*                              resolveVersionRange, resolveSingleVersion, *)
(*                              compareVersions)                           *)
(*   - the lock store          (lockfile.go: LockFile)                     *)
(*   - archive extraction      (package_manager.go: extractAndCache)       *)
(*   - the install scheduler   (parallel.go: ParallelInstaller)            *)
(*                                                                         *)
(* Go strings are modelled as sequences of one-character strings, so that  *)
(* Split, HasPrefix, TrimPrefix and fmt.Sscanf("%d") are computed, not     *)
(* assumed.                                                                *)
(***************************************************************************)
EXTENDS Integers, Sequences, FiniteSets, Bags, TLC

(***************************************************************************)
(* Go strings                                                              *)
(***************************************************************************)

Digits == {"0", "1", "2", "3", "4", "5", "6", "7", "8", "9"}

DigitVal(c) ==
    CASE c = "0" -> 0 [] c = "1" -> 1 [] c = "2" -> 2 [] c = "3" -> 3
      [] c = "4" -> 4 [] c = "5" -> 5 [] c = "6" -> 6 [] c = "7" -> 7
      [] c = "8" -> 8 [] c = "9" -> 9

\* the empty string
Empty == << >>

\* strings.HasPrefix
HasPrefix(s, p) ==
    /\ Len(p) <= Len(s)
    /\ SubSeq(s, 1, Len(p)) = p

\* strings.HasSuffix
HasSuffix(s, p) ==
    /\ Len(p) <= Len(s)
    /\ SubSeq(s, Len(s) - Len(p) + 1, Len(s)) = p

\* strings.TrimPrefix
TrimPrefix(s, p) ==
    IF HasPrefix(s, p) THEN SubSeq(s, Len(p) + 1, Len(s)) ELSE s

\* strings.TrimSuffix
TrimSuffix(s, p) ==
    IF HasSuffix(s, p) THEN SubSeq(s, 1, Len(s) - Len(p)) ELSE s

\* strings.Index, 1-based; 0 when sep does not occur in s
Index(s, sep) ==
    LET hits == {i \in 1..(Len(s) - Len(sep) + 1) :
                    SubSeq(s, i, i + Len(sep) - 1) = sep}
    IN  IF hits = {} THEN 0
        ELSE CHOOSE i \in hits : \A j \in hits : i <= j

\* strings.Contains
Contains(s, sep) == Index(s, sep) # 0

\* strings.Split for a non-empty separator
RECURSIVE Split(_, _)
Split(s, sep) ==
    LET i == Index(s, sep)
    IN  IF i = 0 THEN <<s>>
        ELSE <<SubSeq(s, 1, i - 1)>>
                \o Split(SubSeq(s, i + Len(sep), Len(s)), sep)

\* the concatenation of a sequence of strings
RECURSIVE Concat(_)
Concat(ss) ==
    IF ss = << >> THEN << >> ELSE Head(ss) \o Concat(Tail(ss))

\* strings.ReplaceAll(s, old, "")
ReplaceAllByEmpty(s, old) == Concat(Split(s, old))

\* strings.TrimSpace (the only white space of the model is " ")
RECURSIVE TrimLeft(_)
TrimLeft(s) ==
    IF s # << >> /\ Head(s) = " " THEN TrimLeft(Tail(s)) ELSE s

RECURSIVE TrimRight(_)
TrimRight(s) ==
    IF s # << >> /\ s[Len(s)] = " "
    THEN TrimRight(SubSeq(s, 1, Len(s) - 1)) ELSE s

TrimSpace(s) == TrimRight(TrimLeft(s))

\* the value of a run of decimal digits
RECURSIVE DecVal(_)
DecVal(ds) ==
    IF ds = << >> THEN 0
    ELSE 10 * DecVal(SubSeq(ds, 1, Len(ds) - 1)) + DigitVal(ds[Len(ds)])

\* the longest prefix of s made of characters of cs
RECURSIVE TakeWhile(_, _)
TakeWhile(s, cs) ==
    IF s # << >> /\ Head(s) \in cs
    THEN <<Head(s)>> \o TakeWhile(Tail(s), cs) ELSE << >>

\* fmt.Sscanf(s, "%d", &p) on p = 0: leading space is skipped, one sign is
\* accepted, then the digits (the scanner also takes "_", which ParseInt
\* then rejects); on any error p keeps its zero value.
ScanInt(s) ==
    LET t    == TrimLeft(s)
        neg  == t # << >> /\ Head(t) = "-"
        sgn  == t # << >> /\ Head(t) \in {"-", "+"}
        body == IF sgn THEN Tail(t) ELSE t
        tok  == TakeWhile(body, Digits \cup {"_"})
    IN  IF tok = << >> \/ (\E i \in 1..Len(tok) : tok[i] = "_") THEN 0
        ELSE IF neg THEN 0 - DecVal(tok) ELSE DecVal(tok)

(***************************************************************************)
(* The registry of the model: version strings and range expressions        *)
(***************************************************************************)

Dot == <<".">>

\* the version string a.b.c
Ver3(a, b, c) == a \o Dot \o b \o Dot \o c

V100  == Ver3(<<"1">>, <<"0">>, <<"0">>)
V110  == Ver3(<<"1">>, <<"1">>, <<"0">>)
V120  == Ver3(<<"1">>, <<"2">>, <<"0">>)
V150  == Ver3(<<"1">>, <<"5">>, <<"0">>)
V190  == Ver3(<<"1">>, <<"9">>, <<"0">>)
V190b == V190 \o <<"-", "b">>
V190b1a == V190b \o <<".", "1", "a">>
V1100 == Ver3(<<"1">>, <<"1", "0">>, <<"0">>)
V200  == Ver3(<<"2">>, <<"0">>, <<"0">>)
V300  == Ver3(<<"3">>, <<"0">>, <<"0">>)
V1000 == Ver3(<<"1", "0">>, <<"0">>, <<"0">>)

Latest == <<"l", "a", "t", "e", "s", "t">>
Caret(v) == <<"^">> \o v
Tilde(v) == <<"~">> \o v
Or(r1, r2) == r1 \o <<" ", "|", "|", " ">> \o r2
OneX == <<"1", ".", "x">>
OneXX == <<"1", ".", "x", ".", "x">>
OneNineX == <<"1", ".", "9", ".", "x">>
AnyX == <<"x">>

\* a map without keys (a dist-tags document without "latest")
NoTags == [k \in {} |-> Empty]

(***************************************************************************)
(* Version resolution                                                      *)
(***************************************************************************)

\* PackageManager.compareVersions
RECURSIVE CompareFrom(_, _, _, _)
CompareFrom(parts1, parts2, i, maxLen) ==
    IF i > maxLen THEN 0
    ELSE LET p1 == IF i <= Len(parts1) THEN ScanInt(parts1[i]) ELSE 0
             p2 == IF i <= Len(parts2) THEN ScanInt(parts2[i]) ELSE 0
         IN  IF p1 > p2 THEN 1
             ELSE IF p1 < p2 THEN -1
             ELSE CompareFrom(parts1, parts2, i + 1, maxLen)

compareVersions(v1, v2) ==
    LET parts1 == Split(v1, Dot)
        parts2 == Split(v2, Dot)
        maxLen == IF Len(parts2) > Len(parts1) THEN Len(parts2) ELSE Len(parts1)
    IN  CompareFrom(parts1, parts2, 1, maxLen)

\* The loop "for v := range availableVersions { if match(v) { if bestVersion
\* == "" || compareVersions(v, bestVersion) > 0 { bestVersion = v } } }" over
\* the matching versions todo: the set of values bestVersion can end with,
\* one for each order in which a Go map may be iterated.
RECURSIVE LoopBest(_, _)
LoopBest(todo, best) ==
    IF todo = {} THEN {best}
    ELSE UNION { LoopBest(todo \ {v},
                          IF best = Empty \/ compareVersions(v, best) > 0
                          THEN v ELSE best) : v \in todo }

\* the versions the caret branch of resolveSingleVersion matches
CaretMatchesPrefix(version, available) ==
    LET majorVersion == Split(TrimPrefix(version, <<"^">>), Dot)[1]
    IN  {v \in available : HasPrefix(v, majorVersion)}

CaretMatches(version, available) ==
    LET majorVersion == Split(TrimPrefix(version, <<"^">>), Dot)[1]
    IN  {v \in available : Split(v, Dot)[1] = majorVersion}

\* the versions the tilde branch of resolveSingleVersion matches
TildeMatchesNoDot(version, available) ==
    LET parts      == Split(TrimPrefix(version, <<"~">>), Dot)
        majorMinor == parts[1] \o Dot \o parts[2]
    IN  {v \in available : HasPrefix(v, majorMinor)}

TildeMatches(version, available) ==
    LET parts      == Split(TrimPrefix(version, <<"~">>), Dot)
        majorMinor == parts[1] \o Dot \o parts[2]
    IN  {v \in available : HasPrefix(v, majorMinor \o Dot)}

\* the wildcard branch, had it kept the separator that ends the pattern
WildcardMatchesKeepDot(version, available) ==
    LET pattern == ReplaceAllByEmpty(version, <<"x">>)
    IN  {v \in available : HasPrefix(v, pattern)}

\* the versions the wildcard branch of resolveSingleVersion matches
WildcardMatches(version, available) ==
    LET pattern == TrimSuffix(ReplaceAllByEmpty(version, <<"x">>), Dot)
    IN  {v \in available : HasPrefix(v, pattern)}

\* PackageManager.resolveSingleVersion: the set of its possible results
\* (Empty is Go's "", no version)
resolveSingleVersion(rawVersion, available) ==
    LET version == TrimSpace(rawVersion)
    IN  IF Contains(version, <<"x">>)
        THEN LoopBest(WildcardMatches(version, available), Empty)
        ELSE IF HasPrefix(version, <<"^">>)
        THEN LoopBest(CaretMatches(version, available), Empty)
        ELSE IF /\ HasPrefix(version, <<"~">>)
                /\ Len(Split(TrimPrefix(version, <<"~">>), Dot)) >= 2
        THEN LoopBest(TildeMatches(version, available), Empty)
        ELSE IF version \in available THEN {version} ELSE {Empty}

\* the loop over the alternatives, had it kept the best match of them all
ResolvePartsBestOfAll(parts, available) ==
    LET all == UNION { resolveSingleVersion(TrimSpace(parts[i]), available)
                          : i \in 1..Len(parts) } \ {Empty}
    IN  IF all = {} THEN {Empty} ELSE LoopBest(all, Empty)

\* the loop over the alternatives of resolveVersionRange
RECURSIVE ResolveParts(_, _)
ResolveParts(parts, available) ==
    IF parts = << >> THEN {Empty}
    ELSE LET here == resolveSingleVersion(TrimSpace(Head(parts)), available)
         IN  (here \ {Empty})
                \cup (IF Empty \in here
                      THEN ResolveParts(Tail(parts), available) ELSE {})

\* PackageManager.resolveVersionRange
resolveVersionRange(versionRange, available) ==
    IF Contains(versionRange, <<"|", "|">>)
    THEN ResolveParts(Split(versionRange, <<"|", "|">>), available)
    ELSE resolveSingleVersion(versionRange, available)

\* what getPackageInfo returns
Resolved(v)  == [err |-> FALSE, version |-> v]
ResolveError == [err |-> TRUE,  version |-> Empty]

\* the lookup registryResp.Versions[version] that ends getPackageInfo
LookUp(version, available) ==
    IF version \in available THEN Resolved(version) ELSE ResolveError

\* the resolution, had a range without match been an error
ResolveVersionNoFallback(version, available, distTags) ==
    IF version = Latest
    THEN IF "latest" \in DOMAIN distTags
         THEN {LookUp(distTags["latest"], available)}
         ELSE {ResolveError}
    ELSE IF \/ Contains(version, <<"x">>)
            \/ Contains(version, <<"|", "|">>)
            \/ Contains(version, <<"^">>)
            \/ Contains(version, <<"~">>)
    THEN { LookUp(r, available) : r \in resolveVersionRange(version, available) }
    ELSE {LookUp(version, available)}

\* PackageManager.getPackageInfo after the registry has answered: the
\* resolution of `version` against the versions and dist-tags of the answer
ResolveVersion(version, available, distTags) ==
    IF version = Latest
    THEN IF "latest" \in DOMAIN distTags
         THEN {LookUp(distTags["latest"], available)}
         ELSE {ResolveError}
    ELSE IF \/ Contains(version, <<"x">>)
            \/ Contains(version, <<"|", "|">>)
            \/ Contains(version, <<"^">>)
            \/ Contains(version, <<"~">>)
    THEN { IF r = Empty
           THEN IF "latest" \in DOMAIN distTags
                THEN LookUp(distTags["latest"], available)
                ELSE ResolveError
           ELSE LookUp(r, available)
           : r \in resolveVersionRange(version, available) }
    ELSE {LookUp(version, available)}

(***************************************************************************)
(* The packages of the model                                               *)
(***************************************************************************)

NameA == <<"a">>
NameB == <<"b">>
NameC == <<"c">>
NameD == <<"d">>
PkgNames == {NameA, NameB}
AllNames == PkgNames \cup {NameC, NameD}

\* a Go map without keys
EmptyMap == [k \in {} |-> Empty]

\* a nil Go map (what yaml.Unmarshal leaves for a key the document lacks):
\* a value that differs from every map of the model
NilMap == (<<"nil">> :> <<"nil">>)

\* the "dependencies" of the package.json inside the archive of name@version
ManifestDeps(name, version) ==
    IF name = NameA
    THEN (NameB :> Caret(V100)) @@ (NameC :> Caret(V100))
    ELSE IF name = NameB /\ version = V200 THEN (NameA :> Caret(V100))
    ELSE IF name = NameC THEN (NameD :> Caret(V100))
    ELSE EmptyMap

\* The tree under node_modules/<name>: Absent (no directory), Partial (a
\* directory without a readable package.json) or the version that the
\* package.json of a completely extracted tree declares.
Absent == <<"absent">>
Partial == <<"partial">>

(***************************************************************************)
(* The lock store (LockFile)                                               *)
(***************************************************************************)

\* fmt.Sprintf("%s@%s", name, version)
PackageKey(name, version) == name \o <<"@">> \o version

\* getPackageDependencies, given the tree under node_modules/<name>
getPackageDependencies(tree, name) ==
    IF tree \in {Absent, Partial} THEN EmptyMap
    ELSE ManifestDeps(name, tree)

\* the LockFile of loadLockFile when there is no lock file
FreshLockFile(now) ==
    [ Version     |-> "1.0",
      CreatedAt   |-> now,
      Packages    |-> EmptyMap,
      Specifiers  |-> EmptyMap,
      DevPackages |-> EmptyMap ]

\* LockFile.addPackage, had it replaced the maps instead of updating them
addPackageLosing(lf, name, version, specifier, isDev, deps) ==
    LET lockPkg == [ Name         |-> name,
                     Version      |-> version,
                     Resolved     |-> <<name, name, version>>,
                     Dependencies |-> deps,
                     DevDep       |-> isDev ]
    IN  [lf EXCEPT
            !.Packages    = (PackageKey(name, version) :> lockPkg),
            !.Specifiers  = (name :> specifier),
            !.DevPackages = IF isDev THEN (name :> specifier) @@ @ ELSE @]

\* LockFile.addPackage; deps is what getPackageDependencies(name) returned
addPackage(lf, name, version, specifier, isDev, deps) ==
    LET lockPkg == [ Name         |-> name,
                     Version      |-> version,
                     Resolved     |-> <<name, name, version>>,
                     Dependencies |-> deps,
                     DevDep       |-> isDev ]
    IN  [lf EXCEPT
            !.Packages    = (PackageKey(name, version) :> lockPkg) @@ @,
            !.Specifiers  = (name :> specifier) @@ @,
            !.DevPackages = IF isDev THEN (name :> specifier) @@ @ ELSE @]

\* LockFile.hasPackage
hasPackage(lf, name, version) ==
    PackageKey(name, version) \in DOMAIN lf.Packages

\* LockFile.getPackageVersion: the versions it can return, one for each
\* order in which the map may be iterated ("" when no entry has the name)
getPackageVersion(lf, name) ==
    LET found == { lf.Packages[k].Version :
                      k \in {q \in DOMAIN lf.Packages :
                                lf.Packages[q].Name = name} }
    IN  IF found = {} THEN {Empty} ELSE found

\* a Go map without the keys of ks
Without(m, ks) == [k \in DOMAIN m \ ks |-> m[k]]

\* LockFile.removePackage, had it deleted the entry of one version only
removePackageOneKey(lf, name) ==
    LET named == {k \in DOMAIN lf.Packages : lf.Packages[k].Name = name}
        keysToRemove == IF named = {} THEN {}
                        ELSE {CHOOSE k \in named : TRUE}
    IN  [lf EXCEPT
            !.Packages    = Without(@, keysToRemove),
            !.Specifiers  = Without(@, {name}),
            !.DevPackages = Without(@, {name})]

\* LockFile.removePackage
removePackage(lf, name) ==
    LET keysToRemove == {k \in DOMAIN lf.Packages : lf.Packages[k].Name = name}
    IN  [lf EXCEPT
            !.Packages    = Without(@, keysToRemove),
            !.Specifiers  = Without(@, {name}),
            !.DevPackages = Without(@, {name})]

\* a call of removePackage or of uninstallPackage and whether it returned
\* an error, as the history keeps it
Call(op, name, err) == [op |-> op, name |-> name, err |-> err]
NoCall == Call("none", Empty, FALSE)

\* is a Go map empty (what `omitempty` asks of a map)
IsEmptyMap(m) == m = NilMap \/ DOMAIN m = {}

\* a document key that is written only when `present`
Optional(present, key, value) ==
    IF present THEN (key :> value) ELSE EmptyMap

\* yaml.Marshal of a LockPackage, had DevDep been tagged `yaml:"-"`
MarshalPackageNoDev(pkg) ==
    [ name |-> pkg.Name, version |-> pkg.Version, resolved |-> pkg.Resolved ]
        @@ Optional(~IsEmptyMap(pkg.Dependencies), "dependencies",
                    pkg.Dependencies)

\* yaml.Marshal of a LockPackage: `dependencies` and `dev` are omitempty
\* (integrity is never set and always omitted)
MarshalPackage(pkg) ==
    [ name |-> pkg.Name, version |-> pkg.Version, resolved |-> pkg.Resolved ]
        @@ Optional(~IsEmptyMap(pkg.Dependencies), "dependencies",
                    pkg.Dependencies)
        @@ Optional(pkg.DevDep, "dev", TRUE)

\* yaml.Marshal of a map of packages
MarshalPackages(m) ==
    IF m = NilMap THEN EmptyMap
    ELSE [k \in DOMAIN m |-> MarshalPackage(m[k])]

\* yaml.Marshal(lf): `devPackages` is omitempty, the mutex is not written
Marshal(lf) ==
    [ lockfileVersion |-> lf.Version,
      createdAt       |-> lf.CreatedAt,
      packages        |-> MarshalPackages(lf.Packages),
      specifiers      |-> IF lf.Specifiers = NilMap THEN EmptyMap
                          ELSE lf.Specifiers ]
        @@ Optional(~IsEmptyMap(lf.DevPackages), "devPackages",
                    lf.DevPackages)

\* the value of a document key, or the Go zero value when it is missing
Field(doc, key, zero) == IF key \in DOMAIN doc THEN doc[key] ELSE zero

\* yaml.Unmarshal into a LockPackage
UnmarshalPackage(doc) ==
    [ Name         |-> Field(doc, "name", Empty),
      Version      |-> Field(doc, "version", Empty),
      Resolved     |-> Field(doc, "resolved", Empty),
      Dependencies |-> Field(doc, "dependencies", NilMap),
      DevDep       |-> Field(doc, "dev", FALSE) ]

\* yaml.Unmarshal into a LockFile
Unmarshal(doc) ==
    [ Version     |-> Field(doc, "lockfileVersion", ""),
      CreatedAt   |-> Field(doc, "createdAt", 0),
      Packages    |-> IF "packages" \in DOMAIN doc
                      THEN [k \in DOMAIN doc.packages |->
                                UnmarshalPackage(doc.packages[k])]
                      ELSE NilMap,
      Specifiers  |-> Field(doc, "specifiers", NilMap),
      DevPackages |-> Field(doc, "devPackages", NilMap) ]

\* no file of that name
NoFile == [missing |-> TRUE]

\* loadLockFile on the lock file `file`, at time `now`
loadLockFile(file, now) ==
    IF file = NoFile THEN FreshLockFile(now)
    ELSE LET lf == Unmarshal(file)
         IN  [lf EXCEPT
                !.Packages    = IF @ = NilMap THEN EmptyMap ELSE @,
                !.Specifiers  = IF @ = NilMap THEN EmptyMap ELSE @,
                !.DevPackages = IF @ = NilMap THEN EmptyMap ELSE @]

(***************************************************************************)
(* Paths and the file system of an extraction                              *)
(*                                                                         *)
(* A path is a Go string; a word such as "node_modules" that no operation  *)
(* looks into stands as one character of it.                               *)
(***************************************************************************)

Slash == <<"/">>
DotDot == <<".", ".">>

\* strings.Join(segs, "/")
RECURSIVE JoinSlash(_)
JoinSlash(segs) ==
    IF segs = << >> THEN Empty
    ELSE IF Len(segs) = 1 THEN Head(segs)
    ELSE Head(segs) \o Slash \o JoinSlash(Tail(segs))

\* the loop of filepath.Clean over the elements of a path: out holds the
\* elements kept so far
RECURSIVE CleanSegs(_, _, _)
CleanSegs(segs, out, rooted) ==
    IF segs = << >> THEN out
    ELSE LET seg == Head(segs)
             next ==
                IF seg = Empty \/ seg = <<".">> THEN out
                ELSE IF seg = DotDot
                THEN IF out # << >> /\ out[Len(out)] # DotDot
                     THEN SubSeq(out, 1, Len(out) - 1)
                     ELSE IF rooted THEN out ELSE Append(out, DotDot)
                ELSE Append(out, seg)
         IN  CleanSegs(Tail(segs), next, rooted)

\* filepath.Clean
Clean(path) ==
    IF path = Empty THEN <<".">>
    ELSE LET rooted == Head(path) = "/"
             out    == JoinSlash(CleanSegs(Split(path, Slash), << >>, rooted))
         IN  IF rooted THEN Slash \o out
             ELSE IF out = Empty THEN <<".">> ELSE out

\* filepath.Join of two non-empty elements
Join(a, b) == Clean(a \o Slash \o b)

\* filepath.Dir of a clean path
Dir(path) ==
    LET segs == Split(path, Slash)
    IN  IF Len(segs) = 1 THEN <<".">>
        ELSE Clean(JoinSlash(SubSeq(segs, 1, Len(segs) - 1))
                     \o (IF Len(segs) = 2 /\ segs[1] = Empty
                         THEN Slash ELSE Empty))

\* the path and its ancestors, the directories that os.MkdirAll(path) needs
Ancestors(path) ==
    LET segs == Split(path, Slash)
    IN  { JoinSlash(SubSeq(segs, 1, k)) : k \in 1..Len(segs) } \ {Empty}

\* a file system: the regular files with their contents, and the directories
EmptyFS == [files |-> EmptyMap, dirs |-> {}]

\* the outcome of a file system call: the file system after it and whether
\* the call returned an error
Done(fs)   == [fs |-> fs, err |-> FALSE]
Failed(fs) == [fs |-> fs, err |-> TRUE]

\* os.MkdirAll: fails when the path or an ancestor is a regular file
MkdirAll(fs, path) ==
    IF \E a \in Ancestors(path) : a \in DOMAIN fs.files
    THEN Failed(fs)
    ELSE Done([fs EXCEPT !.dirs = @ \cup Ancestors(path)])

\* is path the directory root or something below it
Under(path, root) == path = root \/ HasPrefix(path, root \o Slash)

\* os.RemoveAll
RemoveTree(fs, root) ==
    [ files |-> Without(fs.files, {q \in DOMAIN fs.files : Under(q, root)}),
      dirs  |-> {d \in fs.dirs : ~Under(d, root)} ]

(***************************************************************************)
(* The cache (Cache)                                                       *)
(***************************************************************************)

\* the characters of a string as one word
RECURSIVE Word(_)
Word(s) == IF s = << >> THEN "" ELSE Head(s) \o Word(Tail(s))

\* hex.EncodeToString(sha256.Sum256(name + "@" + version))[:12], a word of
\* hexadecimal digits taken to differ for different keys
Hash12(name, version) == <<"#" \o Word(PackageKey(name, version))>>

\* Cache.cacheDir
CacheDir == <<"/", "cache">>

\* Cache.getPackagePath
getPackagePath(name, version) ==
    Clean(CacheDir \o Slash
            \o name \o <<"-">> \o version \o <<"-">> \o Hash12(name, version))

(***************************************************************************)
(* Archive extraction (extractAndCache)                                    *)
(***************************************************************************)

PackagePrefix == <<"package", "/">>

\* PackageManager.nodeModulesPath, as filepath.Join leaves it
NodeModulesPath == <<"node_modules">>

\* the guard of extractAndCache, had it compared without the separator
InsideDestNoSeparator(cleanTarget, cleanDest) ==
    HasPrefix(cleanTarget, cleanDest)

\* the guard of extractAndCache on the cleaned target
InsideDest(cleanTarget, cleanDest) ==
    HasPrefix(cleanTarget, cleanDest \o Slash) \/ cleanTarget = cleanDest

\* does the loop of extractAndCache pass over the entry without writing
Skipped(header, destPath) ==
    LET path == TrimPrefix(header.Name, PackagePrefix)
    IN  \/ path = Empty
        \/ path = header.Name
        \/ ~InsideDest(Clean(Join(destPath, path)), Clean(destPath))

\* os.OpenFile(path, O_CREATE|O_WRONLY|O_TRUNC): an empty file, or an error
\* when the path is a directory
NoData == "empty"

OpenFile(fs, path) ==
    IF path \in fs.dirs
    THEN Failed(fs)
    ELSE Done([fs EXCEPT !.files = (path :> NoData) @@ @])

\* io.Copy(io.MultiWriter(file, cacheFile), tarReader), when it succeeds
CopyBoth(fs, target, cacheTarget, data) ==
    [fs EXCEPT !.files = (target :> data) @@ (cacheTarget :> data) @@ @]

\* one entry of the loop of extractAndCache that is not skipped: the two
\* trees after it, and whether it returned an error; copyOK tells whether
\* io.Copy succeeds
ExtractEntry(fs, header, destPath, cachePath, copyOK) ==
    LET path        == TrimPrefix(header.Name, PackagePrefix)
        target      == Join(destPath, path)
        cacheTarget == Join(cachePath, path)
    IN  IF header.Typeflag = "dir"
        THEN LET m1 == MkdirAll(fs, target)
                 m2 == MkdirAll(m1.fs, cacheTarget)
             IN  IF m1.err THEN m1 ELSE m2
        ELSE IF header.Typeflag = "reg"
        THEN LET m1 == MkdirAll(fs, Dir(target))
                 m2 == MkdirAll(m1.fs, Dir(cacheTarget))
                 o1 == OpenFile(m2.fs, target)
                 o2 == OpenFile(o1.fs, cacheTarget)
             IN  IF m1.err THEN m1
                 ELSE IF m2.err THEN m2
                 ELSE IF o1.err THEN o1
                 ELSE IF o2.err THEN o2
                 ELSE IF ~copyOK THEN Failed(o2.fs)
                 ELSE Done(CopyBoth(o2.fs, target, cacheTarget, header.Data))
        ELSE Done(fs)

(***************************************************************************)
(* The parallel installer: jobs, results, the registry, the trees under    *)
(* node_modules and the cache                                              *)
(***************************************************************************)

\* NewParallelInstaller: maxWorkers
maxWorkers == 4

RECURSIVE JoinSep(_, _)
\* strings.Join(ss, sep)
JoinSep(ss, sep) ==
    IF Len(ss) = 0 THEN Empty
    ELSE IF Len(ss) = 1 THEN ss[1]
    ELSE ss[1] \o sep \o JoinSep(Tail(ss), sep)

\* strings.SplitN(s, sep, n) for n >= 1
SplitN(s, sep, n) ==
    LET all == Split(s, sep)
    IN  IF Len(all) <= n THEN all
        ELSE SubSeq(all, 1, n - 1) \o <<JoinSep(SubSeq(all, n, Len(all)), sep)>>

\* parsePackageSpec: <<name, version>>
parsePackageSpec(packageSpec) ==
    IF HasPrefix(packageSpec, <<"@">>)
    THEN LET parts == SplitN(packageSpec, <<"@">>, 3)
         IN  IF Len(parts) = 2 THEN << <<"@">> \o parts[2], Latest >>
             ELSE IF Len(parts) = 3 THEN << <<"@">> \o parts[2], parts[3] >>
             ELSE <<packageSpec, Latest>>
    ELSE LET parts == Split(packageSpec, <<"@">>)
         IN  IF Len(parts) > 1 THEN <<parts[1], parts[2]>>
             ELSE <<parts[1], Latest>>

\* InstallFromSpecs: the jobs it hands to InstallPackages
InstallFromSpecs(packageSpecs, isDev) ==
    [i \in 1..Len(packageSpecs) |->
        LET spec == packageSpecs[i]
            p    == parsePackageSpec(spec)
        IN  [ Name         |-> p[1],
              Version      |-> p[2],
              IsDev        |-> isDev,
              OriginalSpec |-> IF p[2] = Latest THEN p[1] ELSE spec ]]

\* the registry's answer for a name: registryResp.Versions (its keys) and
\* registryResp.DistTags
RegistryVersions(name) == {V100, V200}
RegistryTags(name) == [k \in {"latest"} |-> V200]

\* PackageResult; Job is the index of the job in jobs
Result(job, installedVersion, fromCache, error) ==
    [ Job              |-> job,
      InstalledVersion |-> installedVersion,
      FromCache        |-> fromCache,
      Error            |-> error ]

\* the local state of a worker that waits for a job: pc is its position, job
\* the job it runs, existing the answer of getPackageVersion, installed the
\* version pm.Install returned, todo the dependencies InstallDependencies has
\* yet to visit, dep the dependency it is installing and ver the version that
\* getPackageInfo resolved
Idle ==
    [ pc |-> "recv", job |-> 0, existing |-> Empty, installed |-> Empty,
      todo |-> {}, dep |-> Empty, ver |-> Empty ]

\* what a step of a worker leaves: its next local state and what it sends
Goto(w) == [next |-> w, send |-> << >>]
\* the send of a result, had the worker not come back from it
SendResultStuck(res) == [next |-> [Idle EXCEPT !.pc = "send"], send |-> <<res>>]
SendResult(res) == [next |-> Idle, send |-> <<res>>]

\* the loop of InstallDependencies after one dependency: the next one, or
\* the return to the worker, which sends the job's result
AfterDep(w) ==
    IF w.todo = {}
    THEN SendResult(Result(w.job, w.installed, FALSE, FALSE))
    ELSE Goto([w EXCEPT !.pc = "nextDep", !.dep = Empty, !.ver = Empty])

\* the worker, had it returned when a job failed
AfterInstallStop(w, err, wasCached, version) ==
    IF w.dep # Empty
    THEN IF err THEN AfterDep(w)
         ELSE Goto([w EXCEPT !.pc = "addDep", !.ver = version])
    ELSE IF err
    THEN [next |-> [Idle EXCEPT !.pc = "exit"],
          send |-> <<Result(w.job, Empty, FALSE, TRUE)>>]
    ELSE IF wasCached THEN SendResult(Result(w.job, version, TRUE, FALSE))
    ELSE Goto([w EXCEPT !.pc = "deps", !.installed = version, !.ver = Empty])

\* InstallDependencies, had installSimple gone on to the dependencies of the
\* dependency it installed
AfterInstallNested(w, err, wasCached, version) ==
    IF w.dep # Empty
    THEN IF err THEN AfterDep(w)
         ELSE Goto([w EXCEPT !.pc = "addDep", !.ver = version,
                       !.todo = @ \cup DOMAIN ManifestDeps(w.dep, version)])
    ELSE IF err THEN SendResult(Result(w.job, Empty, FALSE, TRUE))
    ELSE IF wasCached THEN SendResult(Result(w.job, version, TRUE, FALSE))
    ELSE Goto([w EXCEPT !.pc = "deps", !.installed = version, !.ver = Empty])

\* the worker, had InstallDependencies returned the error of installSimple
\* and the worker failed the job on it
AfterInstallDepFatal(w, err, wasCached, version) ==
    IF err THEN SendResult(Result(w.job, Empty, FALSE, TRUE))
    ELSE IF w.dep # Empty
    THEN Goto([w EXCEPT !.pc = "addDep", !.ver = version])
    ELSE IF wasCached THEN SendResult(Result(w.job, version, TRUE, FALSE))
    ELSE Goto([w EXCEPT !.pc = "deps", !.installed = version, !.ver = Empty])

\* the worker after pm.Install returned (err, wasCached, version), and
\* InstallDependencies after pm.installSimple returned for a dependency
AfterInstall(w, err, wasCached, version) ==
    IF w.dep # Empty
    THEN IF err THEN AfterDep(w)
         ELSE Goto([w EXCEPT !.pc = "addDep", !.ver = version])
    ELSE IF err THEN SendResult(Result(w.job, Empty, FALSE, TRUE))
    ELSE IF wasCached THEN SendResult(Result(w.job, version, TRUE, FALSE))
    ELSE Goto([w EXCEPT !.pc = "deps", !.installed = version, !.ver = Empty])

\* pm.Install and pm.installSimple, had they returned the error of
\* installFromCache
AfterRestoreErrorReturned(w) == AfterInstall(w, TRUE, FALSE, Empty)

\* pm.Install and pm.installSimple after installFromCache returned an error:
\* the error is dropped and downloadAndExtract is next
AfterRestoreError(w) == Goto([w EXCEPT !.pc = "download"])

\* the cache directories of the model, none of which exists
CachePaths == {getPackagePath(n, v) : n \in AllNames, v \in {V100, V200}}

\* Cache.getPackagePath of the packages the registry has, computed once
PackagePaths ==
    {<<n, v, getPackagePath(n, v)>> : n \in AllNames, v \in {V100, V200}}
CachePath(name, version) ==
    (CHOOSE t \in PackagePaths : t[1] = name /\ t[2] = version)[3]
EmptyCache == [p \in CachePaths |-> "none"]

\* copyDirectory(cachePath, destPath) when it returns nil: the trees it can
\* leave. A cache directory that an extraction left unfinished ("partial")
\* may or may not hold the package.json.
CopyDirectory(cached, tree, version) ==
    IF cached = "complete" THEN {version}
    ELSE IF tree \in {Absent, Partial} THEN {Partial, version}
    ELSE {tree, version}

\* the project's package.json: its two dependency tables
EmptyPackageJSON == [Dependencies |-> EmptyMap, DevDependencies |-> EmptyMap]

\* updatePackageJSON
updatePackageJSON(pkg, packageName, version, isDev) ==
    IF isDev
    THEN [pkg EXCEPT !.DevDependencies = (packageName :> Caret(version)) @@ @]
    ELSE [pkg EXCEPT !.Dependencies = (packageName :> Caret(version)) @@ @]

\* the counters of showProgress
NoCounts == [completed |-> 0, failed |-> 0, cached |-> 0, downloaded |-> 0]

\* the counters of showProgress after a result, had a result from the cache
\* been counted as downloaded too
TallyCachedAsBoth(c, result) ==
    IF result.Error
    THEN [c EXCEPT !.failed = @ + 1]
    ELSE [c EXCEPT !.completed  = @ + 1,
                   !.cached     = IF result.FromCache THEN @ + 1 ELSE @,
                   !.downloaded = @ + 1]

\* the counters of showProgress after a result
Tally(c, result) ==
    IF result.Error
    THEN [c EXCEPT !.failed = @ + 1]
    ELSE [c EXCEPT !.completed  = @ + 1,
                   !.cached     = IF result.FromCache THEN @ + 1 ELSE @,
                   !.downloaded = IF result.FromCache THEN @ ELSE @ + 1]

\* `<-progressDone` can proceed: showProgress has closed the channel
ProgressDoneEarly(aggregator) == TRUE
ProgressDone(aggregator) == aggregator = "done"

\* a receive from a channel: what is left in its buffer
RecvKeeping(ch) == ch
Recv(ch) == Tail(ch)

(***************************************************************************)
(* State                                                                   *)
(***************************************************************************)

VARIABLES
    \* one call of getPackageInfo
    rRange,     \* the version argument: "latest", a range or an exact version
    rAvail,     \* the keys of registryResp.Versions
    rTags,      \* registryResp.DistTags
    rOut,       \* what the call returned
    rpc         \* "start" before the call, "done" after it

rvars == <<rRange, rAvail, rTags, rOut, rpc>>

VARIABLES
    \* the lock store and the files it reads and writes
    lockFile,     \* the LockFile of the running process
    lockDisk,     \* the document in gpm-lock.yaml, or NoFile
    nodeModules,  \* the tree under node_modules/<name>, for each name
    lfSaved,      \* history: the LockFile as it was at the last save
    lpc,          \* "loaded" (by loadLockFile, and unchanged since), "open"
                  \* (changed since) or "saved" (the process has ended)
    lOps,         \* the number of addPackage and removePackage calls so far
    lLast         \* history: the last removePackage or uninstallPackage call

lvars == <<lockFile, lockDisk, nodeModules, lfSaved, lpc, lOps, lLast>>

VARIABLES
    \* one call of extractAndCache
    xName,      \* packageName
    xVersion,   \* version
    xArchive,   \* the headers (with their data) that tarReader yields
    xNext,      \* the index of the next header
    xfs,        \* the file system
    xpc         \* "start", "loop", "done" (returned nil) or "failed"

xvars == <<xName, xVersion, xArchive, xNext, xfs, xpc>>

VARIABLES
    \* one process of `gpm install <specs>` after the other
    jobs,           \* the jobs InstallFromSpecs built for InstallPackages
    sent,           \* how many of them the producer loop has sent
    jobChan,        \* the buffered channel of jobs (indexes into jobs)
    jobsClosed,     \* close(jobChan) has happened
    resultChan,     \* the buffered channel of results
    resultsClosed,  \* close(resultChan) has happened
    workers,        \* the bag of the worker goroutines' local states
    apc,            \* showProgress: "run", or "done" once close(done) ran
    counts,         \* completed, failed, cached, downloaded of showProgress
    mpc,            \* the main goroutine: "start", "send", "wait",
                    \* "returned", "saved" or "notsaved"
    runs,           \* the number of processes started so far
    cache,          \* the cache directory of each (name, version)
    packageJSON,    \* the dependency tables of the project's package.json
    \* history
    taken,          \* per job, how many times a worker received it
    emitted,        \* per job, the results sent for it
    netJobs,        \* the jobs whose pipeline asked the registry or downloaded
    depKeys,        \* the lock keys InstallDependencies wrote in this run
    prevOK,         \* the (name, version) requests that the previous run
                    \* fulfilled and saved in the lock file
    startKeys,      \* the keys of LockFile.Packages when the run began
    startTree       \* nodeModules when the run began

svars == <<jobs, sent, jobChan, jobsClosed, resultChan, resultsClosed, workers,
           apc, counts, mpc, runs, cache, packageJSON,
           taken, emitted, netJobs, depKeys, prevOK, startKeys, startTree>>

VARIABLES
    \* calls on the lock store from several goroutines
    mu,         \* LockFile.mu, a sync.RWMutex: whether a writer holds it and
                \* how many readers hold it
    calls,      \* for each goroutine, the call it is in and where
    \* Cache.listPackages
    listed,     \* whether listPackages was called, and what it returned
    \* the Timer of a command
    timer,      \* the fields of the Timer
    tgo         \* where the goroutines that use the Timer are

mvars == <<mu, calls>>

tvars == <<timer, tgo>>

ovars == <<mvars, listed, tvars>>

vars == <<rvars, lvars, xvars, svars, ovars>>

(***************************************************************************)
(* Bounds and inputs                                                       *)
(***************************************************************************)

\* the largest number of versions a registry answer of the model holds
MaxVersions == 3

\* the largest number of addPackage and removePackage calls of a behaviour
MaxLockOps == 3

\* the largest number of entries of an archive
MaxEntries == 3

\* the readings of time.Now()
Times == {0, 1}

\* the specifier texts of a name: the bare name (for "latest") and name@1.0.0
SpecifiersOf(name) == {name, name \o <<"@">> \o V100}

VersionPool ==
    {V110, V120, V150, V190, V190b, V190b1a, V1100, V200, V300, V1000}

RangePool ==
    { Latest, V150, OneX, OneXX, OneNineX, AnyX,
      Caret(V100), Caret(V200),
      Tilde(V190), Tilde(V110),
      Or(Caret(V200), Caret(V100)), Or(Caret(V100), Caret(V200)),
      Or(Tilde(V110), Caret(V300)) }

(***************************************************************************)
(* Specification of one resolution                                         *)
(***************************************************************************)

\* a sync.RWMutex that nobody holds
FreeMutex == [writer |-> FALSE, readers |-> 0]

\* no goroutine calls the lock store
StoreIdle ==
    /\ mu = FreeMutex
    /\ calls = << >>

\* listPackages was not called
NotListed == [called |-> FALSE, packages |-> {}]

ListIdle == listed = NotListed

\* NewTimer: the fields of a Timer that decide what its methods do (the
\* times, which only the printed durations depend on, are left out); mu is
\* "free" or the goroutine that holds the sync.Mutex, wg the counter of the
\* WaitGroup
NewTimer ==
    [running |-> FALSE, paused |-> FALSE, mu |-> "free", wg |-> 0]

\* no goroutine uses a Timer
TimerIdle ==
    /\ timer = NewTimer
    /\ tgo = << >>

OthersIdle == StoreIdle /\ ListIdle /\ TimerIdle

ResolveIdle ==
    /\ rRange = Latest
    /\ rAvail = {}
    /\ rTags = NoTags
    /\ rOut = ResolveError
    /\ rpc = "idle"

\* an archive entry
Entry(name, typeflag, data) ==
    [Name |-> name, Typeflag |-> typeflag, Data |-> data]

EntryPool ==
    { Entry(<<"package", "/", "package.json">>, "reg", "manifest"),
      Entry(<<"package", "/", "lib">>, "dir", NoData),
      Entry(<<"package", "/", "lib", "/", "i.js">>, "reg", "code"),
      Entry(<<"package", "/", "lib">>, "reg", "lib as a file"),
      Entry(<<"package", "/">>, "dir", NoData),
      Entry(<<"package", "/", ".", ".", "/", ".", ".", "/", "evil">>,
            "reg", "evil"),
      Entry(<<"package", "/", ".", ".", "/", "a", "b", "/", "f">>,
            "reg", "sibling"),
      Entry(<<"package", "/", ".", ".", "/", "a", "/", "f">>, "reg", "self"),
      Entry(<<"/", "etc", "/", "passwd">>, "reg", "absolute") }

ExtractIdle ==
    /\ xName = NameA
    /\ xVersion = V100
    /\ xArchive = << >>
    /\ xNext = 1
    /\ xfs = EmptyFS
    /\ xpc = "idle"

\* no install process has run
NoRunYet ==
    /\ jobs = << >>
    /\ sent = 0
    /\ jobChan = << >>
    /\ jobsClosed = FALSE
    /\ resultChan = << >>
    /\ resultsClosed = FALSE
    /\ workers = EmptyBag
    /\ apc = "done"
    /\ counts = NoCounts
    /\ mpc = "start"
    /\ runs = 0
    /\ cache = EmptyCache
    /\ taken = << >>
    /\ emitted = << >>
    /\ netJobs = {}
    /\ depKeys = {}
    /\ prevOK = {}
    /\ startKeys = {}
    /\ startTree = [n \in AllNames |-> Absent]

\* no install process has run, in a project whose package.json has no
\* dependencies
SchedIdle ==
    /\ NoRunYet
    /\ packageJSON = EmptyPackageJSON

LockIdle ==
    /\ lockFile = FreshLockFile(0)
    /\ lockDisk = NoFile
    /\ nodeModules = [n \in AllNames |-> Absent]
    /\ lfSaved = FreshLockFile(0)
    /\ lpc = "idle"
    /\ lOps = 0
    /\ lLast = NoCall

InitResolve ==
    /\ OthersIdle
    /\ LockIdle
    /\ ExtractIdle
    /\ SchedIdle
    /\ rRange \in RangePool
    /\ rAvail \in {S \in SUBSET VersionPool :
                        Cardinality(S) \in 1..MaxVersions}
    /\ rTags \in {NoTags} \cup {[k \in {"latest"} |-> v] : v \in rAvail}
    /\ rOut = ResolveError
    /\ rpc = "start"

\* PackageManager.getPackageInfo, from the decoded registry answer on
getPackageInfo ==
    /\ rpc = "start"
    /\ \E out \in ResolveVersion(rRange, rAvail, rTags) : rOut' = out
    /\ rpc' = "done"
    /\ UNCHANGED <<rRange, rAvail, rTags>>
    /\ UNCHANGED <<lvars, xvars, svars, ovars>>

NextResolve == getPackageInfo

ResolveSpec == InitResolve /\ [][NextResolve]_vars

(***************************************************************************)
(* Specification of the lock store: processes that load the lock file,     *)
(* add and remove packages, and save it                                    *)
(***************************************************************************)

InitLock ==
    /\ OthersIdle
    /\ ResolveIdle
    /\ ExtractIdle
    /\ SchedIdle
    /\ lockFile = FreshLockFile(0)
    /\ lockDisk = NoFile
    /\ nodeModules \in {[n \in AllNames |-> Absent],
                        [n \in AllNames |-> IF n = NameA THEN V100 ELSE Absent]}
    /\ lfSaved = FreshLockFile(0)
    /\ lpc = "open"
    /\ lOps = 0
    /\ lLast = NoCall

\* a call lockFile.addPackage(name, version, specifier, isDev)
LockAdd ==
    /\ lpc \in {"open", "loaded"}
    /\ lOps < MaxLockOps
    /\ \E name \in PkgNames, version \in {V100, V200}, isDev \in BOOLEAN :
         \E specifier \in SpecifiersOf(name) :
            lockFile' = addPackage(lockFile, name, version, specifier, isDev,
                            getPackageDependencies(nodeModules[name], name))
    /\ lOps' = lOps + 1
    /\ lpc' = "open"
    /\ lLast' = NoCall
    /\ UNCHANGED <<lockDisk, nodeModules, lfSaved>>
    /\ UNCHANGED <<rvars, ovars, xvars, svars>>

\* a call lockFile.removePackage(name)
LockRemove ==
    /\ lpc \in {"open", "loaded"}
    /\ lOps < MaxLockOps
    /\ \E name \in PkgNames :
         /\ lockFile' = removePackage(lockFile, name)
         /\ lLast' = Call("removePackage", name, FALSE)
    /\ lOps' = lOps + 1
    /\ lpc' = "open"
    /\ UNCHANGED <<lockDisk, nodeModules, lfSaved>>
    /\ UNCHANGED <<rvars, ovars, xvars, svars>>

\* handleUninstall: a call uninstallPackage(packageName, lockFile). It
\* returns nil at once when node_modules/<packageName> does not exist; its
\* os.RemoveAll may fail, before or after it has removed something, and
\* handleUninstall then exits without saving; the failures of
\* removePackageBinaries and of removeFromPackageJSON are only printed
uninstallPackage ==
    /\ lpc \in {"open", "loaded"}
    /\ lOps < MaxLockOps
    /\ \E packageName \in PkgNames :
         IF nodeModules[packageName] = Absent
         THEN /\ lLast' = Call("uninstallPackage", packageName, FALSE)
              /\ UNCHANGED <<lockFile, nodeModules, lpc>>
         ELSE \E removed \in BOOLEAN :
                IF removed
                THEN /\ nodeModules' =
                          [nodeModules EXCEPT ![packageName] = Absent]
                     /\ lockFile' = removePackage(lockFile, packageName)
                     /\ lpc' = "open"
                     /\ lLast' = Call("uninstallPackage", packageName, FALSE)
                ELSE /\ \E tree \in {nodeModules[packageName], Partial} :
                          nodeModules' =
                              [nodeModules EXCEPT ![packageName] = tree]
                     /\ lpc' = "saved"
                     /\ lLast' = Call("uninstallPackage", packageName, TRUE)
                     /\ UNCHANGED lockFile
    /\ lOps' = lOps + 1
    /\ UNCHANGED <<lockDisk, lfSaved>>
    /\ UNCHANGED <<rvars, ovars, xvars, svars>>

\* LockFile.saveLockFile, as the last act of a process; os.WriteFile may fail
LockSave ==
    /\ lpc \in {"open", "loaded"}
    /\ \E now \in Times, written \in BOOLEAN :
        LET lf == [lockFile EXCEPT !.CreatedAt = now]
        IN  /\ lockFile' = lf
            /\ lockDisk' = IF written THEN Marshal(lf) ELSE lockDisk
            /\ lfSaved' = IF written THEN lf ELSE lfSaved
    /\ lpc' = "saved"
    /\ lLast' = NoCall
    /\ UNCHANGED <<nodeModules, lOps>>
    /\ UNCHANGED <<rvars, ovars, xvars, svars>>

\* loadLockFile, as the first act of the next process
LockLoad ==
    /\ lpc = "saved"
    /\ \E now \in Times : lockFile' = loadLockFile(lockDisk, now)
    /\ lpc' = "loaded"
    /\ UNCHANGED <<lockDisk, nodeModules, lfSaved, lOps, lLast>>
    /\ UNCHANGED <<rvars, ovars, xvars, svars>>

NextLock ==
    LockAdd \/ LockRemove \/ uninstallPackage \/ LockSave \/ LockLoad

LockSpec == InitLock /\ [][NextLock]_vars

(***************************************************************************)
(* Specification of one extraction                                         *)
(***************************************************************************)

\* destPath, as Install and installSimple pass it
DestPath(name) == Join(NodeModulesPath, name)

\* the directories that exist before any install
BaseDirs == {NodeModulesPath, CacheDir}

InitExtract ==
    /\ OthersIdle
    /\ ResolveIdle
    /\ LockIdle
    /\ SchedIdle
    /\ xName = NameA
    /\ xVersion = V100
    /\ xArchive \in UNION {[1..n -> EntryPool] : n \in 1..MaxEntries}
    /\ xNext = 1
    /\ xfs \in
         { [files |-> EmptyMap, dirs |-> BaseDirs],
           [files |-> (Join(DestPath(xName), <<"old">>) :> "old")
                        @@ (Join(getPackagePath(xName, xVersion), <<"old">>)
                              :> "old"),
            dirs  |-> BaseDirs \cup {DestPath(xName),
                                     getPackagePath(xName, xVersion)}] }
    /\ xpc = "start"

\* extractAndCache up to its loop: the two os.RemoveAll calls, each of
\* which may fail
ExtractStart ==
    /\ xpc = "start"
    /\ \E removed \in 0..2 :
        /\ xfs' = IF removed = 0 THEN xfs
                  ELSE IF removed = 1 THEN RemoveTree(xfs, DestPath(xName))
                  ELSE RemoveTree(RemoveTree(xfs, DestPath(xName)),
                                  getPackagePath(xName, xVersion))
        /\ xpc' = IF removed = 2 THEN "loop" ELSE "failed"
    /\ UNCHANGED <<xName, xVersion, xArchive, xNext>>
    /\ UNCHANGED <<rvars, ovars, lvars, svars>>

\* one turn of the loop of extractAndCache on the next header; tarReader.Next
\* and io.Copy may fail
ExtractHeader ==
    /\ xpc = "loop"
    /\ xNext <= Len(xArchive)
    /\ \E readOK \in BOOLEAN, copyOK \in BOOLEAN :
        LET header == xArchive[xNext]
            out    == ExtractEntry(xfs, header, DestPath(xName),
                                   getPackagePath(xName, xVersion), copyOK)
        IN  IF ~readOK
            THEN xpc' = "failed" /\ UNCHANGED <<xfs, xNext>>
            ELSE IF Skipped(header, DestPath(xName))
            THEN xNext' = xNext + 1 /\ UNCHANGED <<xfs, xpc>>
            ELSE /\ xfs' = out.fs
                 /\ xpc' = IF out.err THEN "failed" ELSE xpc
                 /\ xNext' = IF out.err THEN xNext ELSE xNext + 1
    /\ UNCHANGED <<xName, xVersion, xArchive>>
    /\ UNCHANGED <<rvars, ovars, lvars, svars>>

\* tarReader.Next returns io.EOF: extractAndCache returns nil
ExtractEOF ==
    /\ xpc = "loop"
    /\ xNext > Len(xArchive)
    /\ xpc' = "done"
    /\ UNCHANGED <<xName, xVersion, xArchive, xNext, xfs>>
    /\ UNCHANGED <<rvars, ovars, lvars, svars>>

NextExtract == ExtractStart \/ ExtractHeader \/ ExtractEOF

ExtractSpec == InitExtract /\ [][NextExtract]_vars

(***************************************************************************)
(* Specification of the installer: processes of `gpm install <specs>`,     *)
(* one after the other, each with its producer, its workers and its        *)
(* aggregator                                                              *)
(***************************************************************************)

\* the largest number of specs on a command line
MaxJobs == 2

\* the largest number of processes of a behaviour
MaxRuns == 2

\* the specs of the command lines
SpecPool == {NameA, NameB \o <<"@">> \o V100}

Init ==
    /\ OthersIdle
    /\ ResolveIdle
    /\ ExtractIdle
    /\ LockIdle
    /\ SchedIdle

\* time.Now(): the clock reads the number of processes started before
\* the running one
Now == IF runs > 0 THEN runs - 1 ELSE 0

\* the local states of the workers
Workers == BagToSet(workers)

\* the workers after one of them went from local state w to local state w2
Move(w, w2) == (workers (-) SetToBag({w})) (+) SetToBag({w2})

\* the package a worker is installing, and the version it asks for: the job's
\* (worker) or the dependency's, at "latest" (InstallDependencies)
Target(w) == IF w.dep # Empty THEN w.dep ELSE jobs[w.job].Name
Wanted(w) ==
    IF w.dep # Empty THEN Latest
    ELSE IF jobs[w.job].Version # Empty THEN jobs[w.job].Version
    ELSE Latest

\* a step of the worker in local state w: r.next is its next local state,
\* r.send the result it sends (the channel has room for every job's result)
WorkerStep(w, r) ==
    /\ workers' = Move(w, r.next)
    /\ resultChan' = resultChan \o r.send
    /\ emitted' = IF r.send = << >> THEN emitted
                  ELSE [emitted EXCEPT ![w.job] = @ \o r.send]

\* what no worker changes
mainvars == <<jobs, sent, jobsClosed, resultsClosed, apc, counts, mpc, runs,
              packageJSON, prevOK, startKeys, startTree,
              lockDisk, lfSaved, lpc, lOps, lLast, rvars, ovars,
              xvars>>

\* handleInstall up to the start of the goroutines of InstallPackages:
\* loadLockFile, InstallFromSpecs, the channels, showProgress and the workers
StartInstall(js) ==
    /\ jobs' = js
    /\ lockFile' = loadLockFile(lockDisk, Now)
    /\ sent' = 0
    /\ jobChan' = << >>
    /\ jobsClosed' = FALSE
    /\ resultChan' = << >>
    /\ resultsClosed' = FALSE
    /\ workers' = [w \in {Idle} |-> maxWorkers]
    /\ apc' = "run"
    /\ counts' = NoCounts
    /\ mpc' = "send"
    /\ runs' = runs + 1
    /\ taken' = [j \in 1..Len(jobs') |-> 0]
    /\ emitted' = [j \in 1..Len(jobs') |-> << >>]
    /\ netJobs' = {}
    /\ depKeys' = {}
    /\ prevOK' = IF mpc = "saved"
                 THEN { <<jobs[j].Name, jobs[j].Version>> :
                          j \in {i \in 1..Len(jobs) :
                                   \E k \in 1..Len(emitted[i]) :
                                       ~emitted[i][k].Error} }
                 ELSE {}
    /\ startKeys' = DOMAIN lockFile'.Packages
    /\ startTree' = nodeModules
    /\ UNCHANGED <<lockDisk, nodeModules, lfSaved, lpc, lOps, lLast, cache,
                   packageJSON, rvars, ovars, xvars>>

\* handleInstall with packages on the command line
handleInstall ==
    /\ mpc \in {"start", "saved", "notsaved"}
    /\ runs < MaxRuns
    /\ \E n \in 1..MaxJobs : \E packageSpecs \in [1..n -> SpecPool] :
         StartInstall(InstallFromSpecs(packageSpecs, FALSE))

\* InstallPackages: `jobChan <- job`
SendJob ==
    /\ mpc = "send"
    /\ sent < Len(jobs)
    /\ jobChan' = Append(jobChan, sent + 1)
    /\ sent' = sent + 1
    /\ UNCHANGED <<jobs, jobsClosed, resultChan, resultsClosed, workers, apc,
                   counts, mpc, runs, cache, packageJSON, taken, emitted,
                   netJobs, depKeys, prevOK, startKeys, startTree,
                   lvars, rvars, ovars, xvars>>

\* InstallPackages: close(jobChan)
CloseJobs ==
    /\ mpc = "send"
    /\ sent = Len(jobs)
    /\ jobsClosed' = TRUE
    /\ mpc' = "wait"
    /\ UNCHANGED <<jobs, sent, jobChan, resultChan, resultsClosed, workers,
                   apc, counts, runs, cache, packageJSON, taken, emitted,
                   netJobs, depKeys, prevOK, startKeys, startTree,
                   lvars, rvars, ovars, xvars>>

\* wg.Wait(), had it returned at the first wg.Done()
wgWaitFirst(ws) == \E w \in ws : w.pc = "exit"
\* wg.Wait(): every worker has called wg.Done()
wgWait(ws) == \A w \in ws : w.pc = "exit"

\* the goroutine of InstallPackages: wg.Wait() and close(resultChan)
CloseResults ==
    /\ mpc = "wait"
    /\ ~resultsClosed
    /\ wgWait(Workers)
    /\ resultsClosed' = TRUE
    /\ UNCHANGED <<jobs, sent, jobChan, jobsClosed, resultChan, workers, apc,
                   counts, mpc, runs, cache, packageJSON, taken, emitted,
                   netJobs, depKeys, prevOK, startKeys, startTree,
                   lvars, rvars, ovars, xvars>>

\* InstallPackages: `<-progressDone` and the return
InstallPackagesReturn ==
    /\ mpc = "wait"
    /\ ProgressDone(apc)
    /\ mpc' = "returned"
    /\ UNCHANGED <<jobs, sent, jobChan, jobsClosed, resultChan, resultsClosed,
                   workers, apc, counts, runs, cache, packageJSON, taken,
                   emitted, netJobs, depKeys, prevOK, startKeys, startTree,
                   lvars, rvars, ovars, xvars>>

\* handleInstall after InstallFromSpecs returned: lockFile.saveLockFile(),
\* whose os.WriteFile may fail, and the end of the process (timer.Stop,
\* which handleInstall calls first, reads and writes none of these variables)
saveLockFile ==
    /\ mpc = "returned"
    /\ \E written \in BOOLEAN :
        LET lf == [lockFile EXCEPT !.CreatedAt = Now]
        IN  /\ lockFile' = lf
            /\ lockDisk' = IF written THEN Marshal(lf) ELSE lockDisk
            /\ lfSaved' = IF written THEN lf ELSE lfSaved
            /\ mpc' = IF written THEN "saved" ELSE "notsaved"
    /\ UNCHANGED <<nodeModules, lpc, lOps, lLast, jobs, sent, jobChan,
                   jobsClosed,
                   resultChan, resultsClosed,
                   workers, apc, counts, runs, cache, packageJSON, taken,
                   emitted, netJobs, depKeys, prevOK, startKeys, startTree,
                   rvars, ovars, xvars>>

\* worker: `for job := range jobs` receives a job
WorkerReceive ==
    /\ jobChan # << >>
    /\ \E w \in Workers :
        /\ w.pc = "recv"
        /\ workers' = Move(w, [w EXCEPT !.pc = "lookup",
                                        !.job = Head(jobChan)])
    /\ taken' = [taken EXCEPT ![Head(jobChan)] = @ + 1]
    /\ jobChan' = Recv(jobChan)
    /\ UNCHANGED <<resultChan, emitted, lockFile, nodeModules, cache, netJobs,
                   depKeys, mainvars>>

\* worker: the job channel is closed and empty, the loop ends and wg.Done()
WorkerExit ==
    /\ jobChan = << >>
    /\ jobsClosed
    /\ \E w \in Workers :
        /\ w.pc = "recv"
        /\ workers' = Move(w, [w EXCEPT !.pc = "exit"])
    /\ UNCHANGED <<jobChan, taken, resultChan, emitted, lockFile, nodeModules,
                   cache, netJobs, depKeys, mainvars>>

\* worker: existingVersion := pi.lockFile.getPackageVersion(job.Name)
WorkerGetPackageVersion ==
    /\ \E w \in Workers :
        /\ w.pc = "lookup"
        /\ \E existingVersion \in getPackageVersion(lockFile, jobs[w.job].Name) :
             WorkerStep(w, Goto(IF existingVersion # Empty
                                THEN [w EXCEPT !.pc = "stat",
                                               !.existing = existingVersion]
                                ELSE [w EXCEPT !.pc = "info"]))
    /\ UNCHANGED <<jobChan, taken, lockFile, nodeModules, cache, netJobs,
                   depKeys, mainvars>>

\* worker: isPackageInstalled("node_modules/<name>", existingVersion); when
\* it holds, the result is sent with FromCache and the loop continues
WorkerIsInstalled ==
    /\ \E w \in Workers :
        /\ w.pc = "stat"
        /\ WorkerStep(w, IF nodeModules[jobs[w.job].Name] = w.existing
                         THEN SendResult(Result(w.job, w.existing, TRUE, FALSE))
                         ELSE Goto([w EXCEPT !.pc = "info",
                                             !.existing = Empty]))
    /\ UNCHANGED <<jobChan, taken, lockFile, nodeModules, cache, netJobs,
                   depKeys, mainvars>>

\* pm.Install and pm.installSimple up to the return of getPackageInfo:
\* ensureNodeModulesDir (Install only) may fail; the registry may not answer
\* with 200 in time; the resolution may fail
InstallGetPackageInfo ==
    /\ \E w \in Workers :
        /\ w.pc = "info"
        /\ \E made \in IF w.dep = Empty THEN BOOLEAN ELSE {TRUE},
              answered \in BOOLEAN :
            IF ~made
            THEN /\ WorkerStep(w, AfterInstall(w, TRUE, FALSE, Empty))
                 /\ UNCHANGED netJobs
            ELSE /\ netJobs' = netJobs \cup {w.job}
                 /\ \E pkgInfo \in
                        IF answered
                        THEN ResolveVersion(Wanted(w),
                                            RegistryVersions(Target(w)),
                                            RegistryTags(Target(w)))
                        ELSE {ResolveError} :
                      WorkerStep(w, IF pkgInfo.err
                                    THEN AfterInstall(w, TRUE, FALSE, Empty)
                                    ELSE Goto([w EXCEPT !.pc = "probe",
                                                  !.ver = pkgInfo.version]))
    /\ UNCHANGED <<jobChan, taken, lockFile, nodeModules, cache, depKeys,
                   mainvars>>

\* pm.Install and pm.installSimple: isPackageInstalled, cache.hasPackage and
\* installFromCache, whose copy may fail, before or after it has written
\* something
InstallProbe ==
    /\ \E w \in Workers :
        /\ w.pc = "probe"
        /\ LET name == Target(w)
               path == CachePath(name, w.ver)
           IN  IF nodeModules[name] = w.ver
               THEN /\ WorkerStep(w, AfterInstall(w, FALSE, TRUE, w.ver))
                    /\ UNCHANGED nodeModules
               ELSE IF cache[path] # "none"
               THEN \E copied \in BOOLEAN :
                      IF copied
                      THEN /\ \E tree \in CopyDirectory(cache[path],
                                              nodeModules[name], w.ver) :
                                nodeModules' =
                                    [nodeModules EXCEPT ![name] = tree]
                           /\ WorkerStep(w, AfterInstall(w, FALSE, TRUE, w.ver))
                      ELSE /\ \E tree \in {nodeModules[name]} \cup
                                      (IF nodeModules[name] = Absent
                                       THEN {Partial} ELSE {}) :
                                nodeModules' =
                                    [nodeModules EXCEPT ![name] = tree]
                           /\ WorkerStep(w, AfterRestoreError(w))
               ELSE /\ WorkerStep(w, Goto([w EXCEPT !.pc = "download"]))
                    /\ UNCHANGED nodeModules
    /\ UNCHANGED <<jobChan, taken, lockFile, cache, netJobs, depKeys, mainvars>>

\* downloadAndExtract up to the loop of extractAndCache: the GET of the
\* tarball, which may fail, and the two os.RemoveAll
DownloadStart ==
    /\ \E w \in Workers :
        /\ w.pc = "download"
        /\ netJobs' = netJobs \cup {w.job}
        /\ \E got \in BOOLEAN :
            IF got
            THEN /\ nodeModules' = [nodeModules EXCEPT ![Target(w)] = Absent]
                 /\ cache' = [cache EXCEPT
                                ![CachePath(Target(w), w.ver)] = "none"]
                 /\ WorkerStep(w, Goto([w EXCEPT !.pc = "extract"]))
            ELSE /\ WorkerStep(w, AfterInstall(w, TRUE, FALSE, Empty))
                 /\ UNCHANGED <<nodeModules, cache>>
    /\ UNCHANGED <<jobChan, taken, lockFile, depKeys, mainvars>>

\* extractAndCache: the first entries are written to the tree and the cache
ExtractBegin ==
    /\ \E w \in Workers :
        /\ w.pc = "extract"
        /\ nodeModules' = [nodeModules EXCEPT ![Target(w)] =
                              IF @ = Absent THEN Partial ELSE @]
        /\ cache' = [cache EXCEPT ![CachePath(Target(w), w.ver)] =
                              IF @ = "none" THEN "partial" ELSE @]
        /\ WorkerStep(w, Goto([w EXCEPT !.pc = "extracting"]))
    /\ UNCHANGED <<jobChan, taken, lockFile, netJobs, depKeys, mainvars>>

\* extractAndCache: the remaining entries, package.json among them, are
\* written and it returns nil, or a read or a write fails and it returns
\* the error
ExtractEnd ==
    /\ \E w \in Workers :
        /\ w.pc = "extracting"
        /\ \E extracted \in BOOLEAN :
            IF extracted
            THEN /\ nodeModules' = [nodeModules EXCEPT ![Target(w)] = w.ver]
                 /\ cache' = [cache EXCEPT
                                ![CachePath(Target(w), w.ver)] = "complete"]
                 /\ WorkerStep(w, AfterInstall(w, FALSE, FALSE, w.ver))
            ELSE /\ WorkerStep(w, AfterInstall(w, TRUE, FALSE, Empty))
                 /\ UNCHANGED <<nodeModules, cache>>
    /\ UNCHANGED <<jobChan, taken, lockFile, netJobs, depKeys, mainvars>>

\* InstallDependencies: the package's own package.json is read
InstallDependencies ==
    /\ \E w \in Workers :
        /\ w.pc = "deps"
        /\ LET name == jobs[w.job].Name
               deps == getPackageDependencies(nodeModules[name], name)
           IN  WorkerStep(w, AfterDep([w EXCEPT !.todo = DOMAIN deps]))
    /\ UNCHANGED <<jobChan, taken, lockFile, nodeModules, cache, netJobs,
                   depKeys, mainvars>>

\* InstallDependencies: the next dependency of the loop, passed over when
\* os.Stat finds its directory
NextDependency ==
    /\ \E w \in Workers :
        /\ w.pc = "nextDep"
        /\ \E depName \in w.todo :
            LET rest == [w EXCEPT !.todo = @ \ {depName}]
            IN  WorkerStep(w, IF nodeModules[depName] # Absent
                              THEN AfterDep(rest)
                              ELSE Goto([rest EXCEPT !.pc = "info",
                                                     !.dep = depName]))
    /\ UNCHANGED <<jobChan, taken, lockFile, nodeModules, cache, netJobs,
                   depKeys, mainvars>>

\* InstallDependencies: lockFile.addPackage(depName, installedVersion,
\* depName, false)
AddDependency ==
    /\ \E w \in Workers :
        /\ w.pc = "addDep"
        /\ lockFile' = addPackage(lockFile, w.dep, w.ver, w.dep, FALSE,
                          getPackageDependencies(nodeModules[w.dep], w.dep))
        /\ depKeys' = depKeys \cup {PackageKey(w.dep, w.ver)}
        /\ WorkerStep(w, AfterDep([w EXCEPT !.dep = Empty, !.ver = Empty]))
    /\ UNCHANGED <<jobChan, taken, nodeModules, cache, netJobs, mainvars>>

\* showProgress: a result is received
ShowProgressResult ==
    /\ apc = "run"
    /\ resultChan # << >>
    /\ LET result == Head(resultChan)
           job    == jobs[result.Job]
       IN  IF result.Error
           THEN /\ counts' = Tally(counts, result)
                /\ UNCHANGED <<lockFile, packageJSON>>
           ELSE /\ counts' = Tally(counts, result)
                /\ lockFile' = addPackage(lockFile, job.Name,
                        result.InstalledVersion, job.OriginalSpec, job.IsDev,
                        getPackageDependencies(nodeModules[job.Name], job.Name))
                /\ packageJSON' =
                        IF job.Name # Empty
                        THEN updatePackageJSON(packageJSON, job.Name,
                                    result.InstalledVersion, job.IsDev)
                        ELSE packageJSON
    /\ resultChan' = Recv(resultChan)
    /\ UNCHANGED <<jobs, sent, jobChan, jobsClosed, resultsClosed, workers,
                   apc, mpc, runs, cache, taken, emitted, netJobs, depKeys,
                   prevOK, startKeys, startTree,
                   lockDisk, nodeModules, lfSaved, lpc, lOps, lLast, rvars, ovars,
                   xvars>>

\* showProgress: the result channel is closed and drained; the summary is
\* printed and close(done) runs
ShowProgressDone ==
    /\ apc = "run"
    /\ resultChan = << >>
    /\ resultsClosed
    /\ apc' = "done"
    /\ UNCHANGED <<jobs, sent, jobChan, jobsClosed, resultChan, resultsClosed,
                   workers, counts, mpc, runs, cache, packageJSON, taken,
                   emitted, netJobs, depKeys, prevOK, startKeys, startTree,
                   lvars, rvars, ovars, xvars>>

Next ==
    \/ handleInstall
    \/ SendJob
    \/ CloseJobs
    \/ CloseResults
    \/ InstallPackagesReturn
    \/ saveLockFile
    \/ WorkerReceive
    \/ WorkerExit
    \/ WorkerGetPackageVersion
    \/ WorkerIsInstalled
    \/ InstallGetPackageInfo
    \/ InstallProbe
    \/ DownloadStart
    \/ ExtractBegin
    \/ ExtractEnd
    \/ InstallDependencies
    \/ NextDependency
    \/ AddDependency
    \/ ShowProgressResult
    \/ ShowProgressDone

Spec == Init /\ [][Next]_vars

(***************************************************************************)
(* The installer: what the claims speak of                                 *)
(***************************************************************************)

JobIds == 1..Len(jobs)

\* the local states of the workers that are running job j
Running(j) == {w \in Workers : w.job = j}

\* the results sent for job j that carry an error, and those that do not
Failures(j) == {k \in 1..Len(emitted[j]) : emitted[j][k].Error}
Successes(j) == {k \in 1..Len(emitted[j]) : ~emitted[j][k].Error}

\* the lock keys of the successful results of job j
KeysOf(j) ==
    {PackageKey(jobs[j].Name, emitted[j][k].InstalledVersion) : k \in Successes(j)}

JobKeys == UNION {KeysOf(j) : j \in JobIds}

\* InstallPackages has returned
Returned == mpc \in {"returned", "saved", "notsaved"}

\* the jobs name pairwise distinct packages
DistinctNames == \A i, j \in JobIds : jobs[i].Name = jobs[j].Name => i = j

\* every job has sent one result, without error
AllSucceeded ==
    \A j \in JobIds : Len(emitted[j]) = 1 /\ Failures(j) = {}

\* C1: every submitted job is received by exactly one worker and has exactly
\* one result sent for it. At every moment a job has been received at most
\* once, and a received job either is being run by exactly one worker and
\* has no result yet, or is run by no worker and has exactly one result;
\* once all workers have exited (the result channel is closed) every job has
\* been received once and has its one result, whichever path it took.
C1_EachJobOnceOneResult ==
    /\ \A j \in JobIds :
        /\ taken[j] <= 1
        /\ Len(emitted[j]) <= 1
        /\ \A w \in Running(j) : CopiesIn(w, workers) = 1
        /\ taken[j] = Len(emitted[j]) + Cardinality(Running(j))
    /\ resultsClosed =>
          \A j \in JobIds : taken[j] = 1 /\ Len(emitted[j]) = 1

\* a run of two jobs has ended, one job on the already-installed path (a
\* result from the lock store and the tree, without any request) and the
\* other on the error path; the first run had a job on the success path
C1_Witness ==
    /\ resultsClosed
    /\ Len(jobs) = 2
    /\ prevOK # {}
    /\ \E i, j \in JobIds :
        /\ Len(emitted[i]) = 1 /\ emitted[i][1].FromCache /\ i \notin netJobs
        /\ Len(emitted[j]) = 1 /\ emitted[j][1].Error

\* C2: InstallPackages returns only after every job has produced a result,
\* the aggregator has received every result and has applied addPackage for
\* every successful one; when the saveLockFile that follows the return
\* writes the file, the file holds an entry for every successful job.
C2_ReturnAfterAllApplied ==
    /\ Returned =>
        /\ resultChan = << >>
        /\ \A j \in JobIds : Len(emitted[j]) >= 1
        /\ counts.completed + counts.failed = Len(jobs)
        /\ JobKeys \subseteq DOMAIN lockFile.Packages
    /\ mpc = "saved" =>
          JobKeys \subseteq DOMAIN loadLockFile(lockDisk, 0).Packages

\* a run of two jobs, both successful, has returned and saved the lock file
C2_Witness ==
    /\ mpc = "saved"
    /\ Len(jobs) = 2
    /\ AllSucceeded
    /\ Cardinality(JobKeys) = 2

\* C3 as stated: N jobs for N distinct names on an empty lock store, all
\* successful, leave exactly N entries in LockFile.Packages at the return.
C3_ExactlyNEntries ==
    (mpc = "returned" /\ startKeys = {} /\ DistinctNames /\ AllSucceeded)
        => Cardinality(DOMAIN lockFile.Packages) = Len(jobs)

\* C3, amended: N jobs for N distinct names on an empty lock store, all
\* successful, leave at the return one entry name@installedVersion for each
\* job (no update is lost) and, apart from these N, only entries that
\* InstallDependencies added for the dependencies it installed; the entries
\* are exactly N when no such dependency entry was added.
C3_EntryPerJobPlusDependencies ==
    (mpc = "returned" /\ startKeys = {} /\ DistinctNames /\ AllSucceeded)
        => /\ \A j \in JobIds : KeysOf(j) \subseteq DOMAIN lockFile.Packages
           /\ Cardinality(JobKeys) = Len(jobs)
           /\ DOMAIN lockFile.Packages = JobKeys \cup depKeys
           /\ Cardinality(DOMAIN lockFile.Packages)
                = Len(jobs) + Cardinality(depKeys \ JobKeys)

\* two jobs for two distinct names have succeeded on an empty lock store
\* and InstallDependencies has added an entry of its own
C3_Witness ==
    /\ mpc = "returned"
    /\ startKeys = {}
    /\ Len(jobs) = 2
    /\ DistinctNames
    /\ AllSucceeded
    /\ depKeys \ JobKeys # {}

\* the number of workers that have left their loop
Exited == CopiesIn([Idle EXCEPT !.pc = "exit"], workers)

\* C4 (states): a failed job has one result, the failed one, and no entry of
\* the lock store comes from it; a worker has left its loop only when the
\* job channel is closed and empty; at the return every job has its own
\* result and the aggregator has counted each failure once.
C4_FailureIsOneResult ==
    /\ \A j \in JobIds : Failures(j) # {} => Len(emitted[j]) = 1
    /\ Exited > 0 => (jobsClosed /\ jobChan = << >>)
    /\ Returned =>
        /\ \A j \in JobIds : Len(emitted[j]) = 1
        /\ counts.failed = Cardinality({j \in JobIds : Failures(j) # {}})
        /\ counts.completed = Cardinality({j \in JobIds : Successes(j) # {}})

\* C4 (steps): the step that sends a failed result returns its worker to the
\* receive of the job channel, stops no worker and leaves the lock store as
\* it was.
C4_FailedWorkerGoesOn ==
    (/\ runs' = runs
     /\ \E j \in JobIds : /\ Len(emitted'[j]) > Len(emitted[j])
                          /\ emitted'[j][Len(emitted'[j])].Error)
        => /\ CopiesIn(Idle, workers') = CopiesIn(Idle, workers) + 1
           /\ CopiesIn([Idle EXCEPT !.pc = "exit"], workers') = Exited
           /\ BagCardinality(workers') = BagCardinality(workers)
           /\ lockFile' = lockFile

\* C4: a job whose pipeline fails is reported as one failed result and
\* nothing more; its worker goes on to receive further jobs, no other worker
\* is stopped, and every other job still produces its own result.
C4_FailureDoesNotStopThePool ==
    []C4_FailureIsOneResult /\ [][C4_FailedWorkerGoesOn]_vars

\* a run of two jobs has returned, the first job received having failed and
\* the other having succeeded after it
C4_Witness ==
    /\ mpc = "returned"
    /\ Len(jobs) = 2
    /\ Failures(1) # {}
    /\ Successes(2) # {}
    /\ counts.failed = 1
    /\ counts.completed = 1

\* C6: a process that installs name@exactVersion alone, after a process that
\* installed and recorded the same request and with the tree of that version
\* in place, makes no request to the registry and no download, reports
\* FromCache without error and leaves the tree as it was.
C6_SecondInstallIsHit ==
    ( /\ Len(jobs) = 1
      /\ jobs[1].Version # Latest
      /\ <<jobs[1].Name, jobs[1].Version>> \in prevOK
      /\ startTree[jobs[1].Name] = jobs[1].Version )
        => /\ netJobs = {}
           /\ nodeModules = startTree
           /\ \A k \in 1..Len(emitted[1]) :
                 emitted[1][k].FromCache /\ ~emitted[1][k].Error

(***************************************************************************)
(* Claims about extraction                                                 *)
(***************************************************************************)

\* is the sequence p a prefix of the sequence q
SeqPrefix(p, q) == Len(p) <= Len(q) /\ SubSeq(q, 1, Len(p)) = p

\* does the path lie in the tree of the root, element by element
InTree(path, root) == SeqPrefix(Split(root, Slash), Split(path, Slash))

\* where an entry named package/<rest> belongs in the destination
TargetOf(header) ==
    Clean(DestPath(xName) \o Slash \o TrimPrefix(header.Name, PackagePrefix))

\* a well-formed entry: package/<rest> with a <rest> that stays in the
\* destination root
WellFormed(header) ==
    /\ HasPrefix(header.Name, PackagePrefix)
    /\ header.Name # PackagePrefix
    /\ InTree(TargetOf(header), DestPath(xName))

\* nothing is ever written outside the destination root (the cache apart);
\* when the extraction returns nil every well-formed file and directory of
\* the archive is in place
C5_WrittenInsideDestination ==
    /\ \A p \in DOMAIN xfs.files \cup xfs.dirs :
          \/ InTree(p, CacheDir)
          \/ InTree(p, DestPath(xName))
          \/ p = NodeModulesPath
    /\ xpc = "done"
          => \A i \in 1..Len(xArchive) :
                WellFormed(xArchive[i]) =>
                    /\ xArchive[i].Typeflag = "reg"
                          => TargetOf(xArchive[i]) \in DOMAIN xfs.files
                    /\ xArchive[i].Typeflag = "dir"
                          => TargetOf(xArchive[i]) \in xfs.dirs

\* a turn of the loop that has read an entry that is not well-formed
\* leaves the file system as it is and goes on with the next entry
C5_EscapingEntryPassedOver ==
    (/\ xpc = "loop"
     /\ xNext <= Len(xArchive)
     /\ ~WellFormed(xArchive[xNext])
     /\ xNext' # xNext)
        => (xfs' = xfs /\ xpc' = "loop" /\ xNext' = xNext + 1)

\* C5: during extractAndCache nothing is ever written outside the
\* destination root (the cache apart); an entry that would resolve outside
\* it (package/../../evil, an absolute path) is passed over and is never
\* what makes the extraction fail; when the extraction returns nil every
\* well-formed file and directory of the archive is in place.
C5_NoEscapeFromDestination ==
    /\ []C5_WrittenInsideDestination
    /\ [][C5_EscapingEntryPassedOver]_vars

\* an archive of package/../../evil, /etc/passwd and package/package.json
\* has been extracted
C5_Witness ==
    /\ xpc = "done"
    /\ Len(xArchive) = 3
    /\ xArchive[1].Data = "evil"
    /\ xArchive[2].Data = "absolute"
    /\ xArchive[3].Data = "manifest"
    /\ Join(DestPath(xName), <<"package.json">>) \in DOMAIN xfs.files

(***************************************************************************)
(* Claims about the lock store                                             *)
(***************************************************************************)

\* a map, a nil map read as the map without keys
AsMap(m) == IF m = NilMap THEN EmptyMap ELSE m

\* the package entries of a LockFile, without regard to nil
EntriesOf(lf) ==
    { [ key  |-> k,
        name |-> lf.Packages[k].Name,
        version |-> lf.Packages[k].Version,
        resolved |-> lf.Packages[k].Resolved,
        deps |-> AsMap(lf.Packages[k].Dependencies),
        dev  |-> lf.Packages[k].DevDep ] : k \in DOMAIN AsMap(lf.Packages) }

\* C7: the LockFile that loadLockFile returns has the package entries, the
\* specifiers and the dev specifiers that the LockFile had when it was
\* saved (CreatedAt is not compared).
C7_SaveLoadRoundTrip ==
    lpc = "loaded"
        => /\ EntriesOf(lockFile) = EntriesOf(lfSaved)
           /\ AsMap(lockFile.Specifiers) = AsMap(lfSaved.Specifiers)
           /\ AsMap(lockFile.DevPackages) = AsMap(lfSaved.DevPackages)

C7_Witness ==
    /\ lpc = "loaded"
    /\ lockDisk # NoFile
    /\ \E k \in DOMAIN lockFile.Packages : lockFile.Packages[k].DevDep
    /\ \E k \in DOMAIN lockFile.Packages :
            lockFile.Packages[k].Dependencies = NilMap
    /\ \E k \in DOMAIN lockFile.Packages :
            /\ lockFile.Packages[k].Dependencies # NilMap
            /\ NameB \in DOMAIN lockFile.Packages[k].Dependencies
    /\ NameA \in DOMAIN lockFile.DevPackages

(***************************************************************************)
(* Claims about version resolution                                         *)
(***************************************************************************)

\* the numeric reading of a version that the claims speak of: its
\* components as integers, a missing component counting as 0
NumAt(v, i) ==
    LET parts == Split(v, Dot)
    IN  IF i <= Len(parts) THEN ScanInt(parts[i]) ELSE 0

NumLeq(v, w) ==
    \/ NumAt(v, 1) < NumAt(w, 1)
    \/ /\ NumAt(v, 1) = NumAt(w, 1)
       /\ \/ NumAt(v, 2) < NumAt(w, 2)
          \/ /\ NumAt(v, 2) = NumAt(w, 2)
             /\ NumAt(v, 3) <= NumAt(w, 3)

SameMajor(v, w) == NumAt(v, 1) = NumAt(w, 1)
SameMinor(v, w) == SameMajor(v, w) /\ NumAt(v, 2) = NumAt(w, 2)

\* r is a highest version of S
HighestOf(r, S) == r \in S /\ \A v \in S : NumLeq(v, r)

BasePool == {V100, V110, V190, V200}

\* C8: a range ^X.Y.Z against a version set that holds a version of major
\* X resolves to a highest version of major X, never to another major.
C8_CaretHighestOfMajor ==
    \A base \in BasePool :
        LET sameMajor == {v \in rAvail : SameMajor(v, base)}
        IN  (rpc = "done" /\ rRange = Caret(base) /\ sameMajor # {})
                => /\ ~rOut.err
                   /\ HighestOf(rOut.version, sameMajor)

C8_Witness ==
    /\ rpc = "done"
    /\ rRange = Caret(V100)
    /\ rAvail = {V190, V1100, V200}
    /\ rOut = Resolved(V1100)

\* C9: a range ~X.Y.Z against a version set that holds a version of
\* major.minor X.Y resolves to a highest version of major.minor X.Y.
C9_TildeHighestOfMinor ==
    \A base \in BasePool :
        LET sameMinor == {v \in rAvail : SameMinor(v, base)}
        IN  (rpc = "done" /\ rRange = Tilde(base) /\ sameMinor # {})
                => /\ ~rOut.err
                   /\ HighestOf(rOut.version, sameMinor)

C9_Witness ==
    /\ rpc = "done"
    /\ rRange = Tilde(V190)
    /\ rAvail = {V190, V1100, V200}
    /\ rOut = Resolved(V190)

\* the versions an alternative ^X.Y.Z or ~X.Y.Z of a range accepts
Accepts(alt, S) ==
    IF HasPrefix(alt, <<"^">>)
    THEN {v \in S : SameMajor(v, TrimPrefix(alt, <<"^">>))}
    ELSE {v \in S : SameMinor(v, TrimPrefix(alt, <<"~">>))}

AltPairs ==
    { <<Caret(V200), Caret(V100)>>, <<Caret(V100), Caret(V200)>>,
      <<Tilde(V110), Caret(V300)>> }

\* C10: a range "a || b" resolves to a highest match of a when a matches
\* anything, whatever b matches, and to a highest match of b when only b
\* matches; ^2.0.0 || ^1.0.0 against {1.5.0, 3.0.0} gives 1.5.0.
C10_FirstAlternativeWins ==
    /\ \A p \in AltPairs :
          (rpc = "done" /\ rRange = Or(p[1], p[2]))
            => LET first  == Accepts(p[1], rAvail)
                   second == Accepts(p[2], rAvail)
               IN  /\ first # {} => HighestOf(rOut.version, first)
                   /\ (first = {} /\ second # {})
                        => HighestOf(rOut.version, second)
    /\ (/\ rpc = "done"
        /\ rRange = Or(Caret(V200), Caret(V100))
        /\ rAvail = {V150, V300})
            => rOut = Resolved(V150)

C10_Witness ==
    /\ rpc = "done"
    /\ rRange = Or(Caret(V100), Caret(V200))
    /\ rAvail = {V150, V200, V300}
    /\ rOut = Resolved(V150)

\* the wildcard ranges, each with what is left of it once every x and the
\* separator that ends it are taken away
WildPairs ==
    { <<OneX, <<"1">> >>, <<OneXX, <<"1", ".">> >>,
      <<OneNineX, <<"1", ".", "9">> >>, <<AnyX, << >> >> }

\* the versions that start with the prefix
StartingWith(prefix, S) == {v \in S : SeqPrefix(prefix, v)}

\* C11: a range containing x resolves to a highest version, by the numeric
\* comparator, among the versions whose text starts with the range stripped
\* of every x and of the separator that ends it; 1.x against {1.2.0, 1.9.0,
\* 2.0.0} gives 1.9.0.
C11_WildcardHighestOfPrefix ==
    /\ \A p \in WildPairs :
          (rpc = "done" /\ rRange = p[1] /\ StartingWith(p[2], rAvail) # {})
            => /\ ~rOut.err
               /\ HighestOf(rOut.version, StartingWith(p[2], rAvail))
    /\ (rpc = "done" /\ rRange = OneX /\ rAvail = {V120, V190, V200})
            => rOut = Resolved(V190)

\* 1.x has been resolved against {1.2.0, 1.9.0, 2.0.0}
C11_Witness ==
    /\ rpc = "done"
    /\ rRange = OneX
    /\ rAvail = {V120, V190, V200}
    /\ rOut = Resolved(V190)

\* the ranges of the pool with ^ or ~, and its exact versions
CaretTildePool == {Caret(V100), Caret(V200), Tilde(V190), Tilde(V110)}
ExactPool == {V150}

\* no rule of the range yields a version of S
NoRuleYields(r, S) ==
    \/ \E p \in WildPairs : r = p[1] /\ StartingWith(p[2], S) = {}
    \/ r \in CaretTildePool /\ Accepts(r, S) = {}
    \/ \E p \in AltPairs : /\ r = Or(p[1], p[2])
                           /\ Accepts(p[1], S) = {}
                           /\ Accepts(p[2], S) = {}

\* C12 as stated: every range other than "latest" for which no rule yields
\* a version, an exact version absent from the version set included,
\* resolves to the version of the dist-tag latest when that tag exists.
C12_FallbackForEveryRange ==
    (/\ rpc = "done"
     /\ "latest" \in DOMAIN rTags
     /\ \/ NoRuleYields(rRange, rAvail)
        \/ rRange \in ExactPool /\ rRange \notin rAvail)
        => rOut = Resolved(rTags["latest"])

\* C12, amended: a range with x, ||, ^ or ~ for which no rule yields a
\* version resolves to the version of the dist-tag latest when that tag
\* exists and is an error when it does not; an exact version that is absent
\* from the version set is an error, whatever the dist-tags.
C12_FallbackForRangesOnly ==
    /\ (rpc = "done" /\ NoRuleYields(rRange, rAvail))
        => rOut = IF "latest" \in DOMAIN rTags
                  THEN Resolved(rTags["latest"])
                  ELSE ResolveError
    /\ (rpc = "done" /\ rRange \in ExactPool /\ rRange \notin rAvail)
        => rOut = ResolveError

\* ^2.0.0 has been resolved against versions of other majors, to the
\* version of the dist-tag latest
C12_Witness ==
    /\ rpc = "done"
    /\ rRange = Caret(V200)
    /\ rAvail = {V150, V300}
    /\ rTags = [k \in {"latest"} |-> V300]
    /\ rOut = Resolved(V300)

\* the entries of LockFile.Packages whose Name is name
EntriesNamed(lf, name) ==
    {k \in DOMAIN lf.Packages : lf.Packages[k].Name = name}

\* C13 as stated: LockFile.Packages never holds two entries with the same
\* name and different versions, and once InstallPackages has returned every
\* name a successful result was applied for has exactly one entry.
C13_OneEntryPerName ==
    /\ \A name \in AllNames : Cardinality(EntriesNamed(lockFile, name)) <= 1
    /\ Returned =>
          \A j \in JobIds : Successes(j) # {} =>
              Cardinality(EntriesNamed(lockFile, jobs[j].Name)) = 1

\* a worker is inside extractAndCache for the cache directory
Extracting(path) ==
    \E w \in Workers : /\ w.pc \in {"extract", "extracting"}
                       /\ getPackagePath(Target(w), w.ver) = path

\* C14 as stated: a cache directory that exists (Cache.hasPackage is true)
\* while no extraction is writing it holds the complete tree of an
\* extraction that returned nil; a failed extraction leaves nothing that
\* Cache.hasPackage reports.
C14_PresentMeansComplete ==
    \A path \in CachePaths :
        (cache[path] # "none" /\ ~Extracting(path)) => cache[path] = "complete"

\* the number of workers of the bag b whose local state is in S
RECURSIVE CountIn(_, _)
CountIn(S, b) ==
    IF S = {} THEN 0
    ELSE LET w == CHOOSE x \in S : TRUE
         IN  CopiesIn(w, b) + CountIn(S \ {w}, b)

\* the local states of the workers that are inside extractAndCache with
\* node_modules/<name> as destination, after its os.RemoveAll
WritersOfTree(name) ==
    {w \in Workers : w.pc \in {"extract", "extracting"} /\ Target(w) = name}

\* C15 as stated: at no time are two workers writing the install directory
\* of one package name, the jobs and the dependency installs of the workers
\* both counted.
C15_OneWriterPerInstallDirectory ==
    \A name \in AllNames : CountIn(WritersOfTree(name), workers) <= 1

\* the local states of the workers that are inside extractAndCache with the
\* cache directory, after its os.RemoveAll
WritersOfCache(path) ==
    {w \in Workers : /\ w.pc \in {"extract", "extracting"}
                     /\ getPackagePath(Target(w), w.ver) = path}

\* C16 as stated: once a worker has started extractAndCache for a (name,
\* version), no other worker removes or writes that cache directory until
\* it has returned.
C16_OneWriterPerCacheDirectory ==
    \A path \in CachePaths : CountIn(WritersOfCache(path), workers) <= 1

\* the worker in local state w takes the step
Steps(w) == CopiesIn(w, workers') < CopiesIn(w, workers)

\* one more worker is in local state w after the step
Enters(w) == CopiesIn(w, workers') > CopiesIn(w, workers)

\* the cache directory of what the worker is installing exists and the tree
\* is not the resolved version: pm.Install is about to call installFromCache
AtRestore(w) ==
    /\ w.pc = "probe"
    /\ nodeModules[Target(w)] # w.ver
    /\ cache[getPackagePath(Target(w), w.ver)] # "none"

\* C17: when the cache directory is reported present, the step of Install
\* (and of installSimple) that restores it either succeeds, and the package
\* is reported as installed from the cache, or goes on to downloadAndExtract
\* without sending anything: no result with an error leaves that step, so a
\* job whose restore failed fails only by what follows.
C17_RestoreErrorIsCacheMiss ==
    [][\A w \in Workers :
        (AtRestore(w) /\ Steps(w) /\ runs' = runs) =>
            \/ /\ w.dep = Empty
               /\ emitted' = [emitted EXCEPT ![w.job] =
                                @ \o <<Result(w.job, w.ver, TRUE, FALSE)>>]
            \/ /\ w.dep # Empty
               /\ Enters([w EXCEPT !.pc = "addDep"])
               /\ emitted' = emitted
            \/ /\ Enters([w EXCEPT !.pc = "download"])
               /\ emitted' = emitted
               /\ resultChan' = resultChan]_vars

\* the one worker of a run of one job is at downloadAndExtract although the
\* cache directory of its package exists: the restore failed
C17_Witness ==
    /\ Len(jobs) = 1
    /\ \E w \in Workers :
          /\ w.pc = "download"
          /\ w.dep = Empty
          /\ cache[getPackagePath(Target(w), w.ver)] # "none"

\* a Go map m2 is the map m without the key of name
RowRemoved(m, m2, name) ==
    /\ DOMAIN m2 = DOMAIN m \ {name}
    /\ \A k \in DOMAIN m2 : m2[k] = m[k]

\* the LockFile lf2 is lf without anything of name
NothingLeftOf(lf, lf2, name) ==
    /\ EntriesNamed(lf2, name) = {}
    /\ DOMAIN lf2.Packages = DOMAIN lf.Packages \ EntriesNamed(lf, name)
    /\ \A k \in DOMAIN lf2.Packages : lf2.Packages[k] = lf.Packages[k]
    /\ RowRemoved(lf.Specifiers, lf2.Specifiers, name)
    /\ RowRemoved(lf.DevPackages, lf2.DevPackages, name)

\* C18: a call removePackage(name) leaves no entry named name in Packages,
\* whatever its version, and no row of name in Specifiers and DevPackages,
\* and leaves every entry and row of the other names as it was.
C18_RemoveLeavesOthers ==
    [][(lLast'.op = "removePackage" /\ lOps' = lOps + 1)
          => NothingLeftOf(lockFile, lockFile', lLast'.name)]_vars

\* removePackage(a) has been called after two additions and the entry and
\* the row of b are still there
C18_Witness ==
    /\ lLast = Call("removePackage", NameA, FALSE)
    /\ lOps = 3
    /\ EntriesNamed(lockFile, NameA) = {}
    /\ EntriesNamed(lockFile, NameB) # {}
    /\ DOMAIN lockFile.Specifiers = {NameB}
    /\ DOMAIN lockFile.DevPackages = {NameB}

\* C19 as stated: when uninstallPackage(name) has returned nil, the
\* LockFile holds no entry and no specifier row of name, whether or not
\* node_modules/<name> existed at the call.
C19_UninstalledMeansNoEntry ==
    (lLast.op = "uninstallPackage" /\ ~lLast.err) =>
        /\ EntriesNamed(lockFile, lLast.name) = {}
        /\ lLast.name \notin DOMAIN lockFile.Specifiers
        /\ lLast.name \notin DOMAIN lockFile.DevPackages

\* the worker that was in local state w is still installing its dependency
\* after the step
DependencyGoesOn(w) ==
    \E w2 \in BagToSet(workers') :
        /\ Enters(w2)
        /\ w2.job = w.job
        /\ w2.dep = w.dep
        /\ w2.todo = w.todo
        /\ w2.installed = w.installed

\* C20 (steps): whatever a worker does while it installs a dependency of its
\* job, the failures of getPackageInfo, of the download and of the
\* extraction included, it is afterwards still installing that dependency,
\* or at the next of the dependencies that are left, or, none being left,
\* it has sent the job's result without error and with the version that
\* pm.Install returned.
C20_DependencyStep ==
    \A w \in Workers :
        (w.dep # Empty /\ Steps(w) /\ runs' = runs) =>
            \/ DependencyGoesOn(w) /\ emitted' = emitted
            \/ /\ w.todo # {}
               /\ Enters([w EXCEPT !.pc = "nextDep", !.dep = Empty,
                                    !.ver = Empty])
               /\ emitted' = emitted
            \/ /\ w.todo = {}
               /\ emitted' = [emitted EXCEPT ![w.job] =
                                @ \o <<Result(w.job, w.installed, FALSE, FALSE)>>]

\* C20 (states): a worker that is in InstallDependencies holds the version
\* pm.Install returned and has sent no result for its job; once
\* InstallPackages has returned, every job without a failed result was
\* counted as completed.
C20_ParentHasSucceeded ==
    /\ \A w \in Workers :
          w.pc \in {"deps", "nextDep", "addDep"} \/ w.dep # Empty
            => w.installed # Empty /\ emitted[w.job] = << >>
    /\ Returned =>
          counts.completed = Cardinality({j \in JobIds : Failures(j) = {}})

\* C20: a failure while a dependency of a package is installed never fails
\* the job of the package: its result carries no error and is counted as
\* completed, and the dependencies that are left are still attempted.
C20_DependencyFailureKeepsParent ==
    []C20_ParentHasSucceeded /\ [][C20_DependencyStep]_vars

\* the one job of the first run, package a, has been downloaded and counted
\* as completed although its dependency b could not be installed, and its
\* dependency c was installed and recorded
C20_Witness ==
    /\ mpc = "returned"
    /\ runs = 1
    /\ Len(jobs) = 1
    /\ jobs[1].Name = NameA
    /\ emitted[1] = <<Result(1, V200, FALSE, FALSE)>>
    /\ counts.completed = 1
    /\ counts.failed = 0
    /\ nodeModules[NameB] = Absent
    /\ nodeModules[NameC] = V200
    /\ PackageKey(NameC, V200) \in DOMAIN lockFile.Packages

\* the jobs whose pm.Install failed at ensureNodeModulesDir: they have a
\* failed result and made no request
CouldNotBegin == {j \in JobIds : Failures(j) # {} /\ j \notin netJobs}

\* C21 as stated: when node_modules could not be created for any job of the
\* run, the run reports failure: handleInstall does not go on to
\* saveLockFile as it does after InstallFromSpecs returned nil.
C21_RunFailsWhenItCannotBegin ==
    (Len(jobs) > 0 /\ CouldNotBegin = JobIds) => mpc \notin {"saved", "notsaved"}

\* the version satisfies what the job asks for: any version when the job
\* names none or "latest", the very version when it names one
Satisfied(job, version) ==
    job.Version \in {Empty, Latest} \/ job.Version = version

\* C22 as stated: a job whose result was sent on the already-installed path
\* of the worker (a result without error for which no request was made)
\* reports an InstalledVersion that satisfies the version the job asked for.
C22_SkipOnlyWhenMatching ==
    \A j \in JobIds : \A k \in Successes(j) :
        j \notin netJobs => Satisfied(jobs[j], emitted[j][k].InstalledVersion)

\* the dependencies that the manifest of the installed package of job j
\* names and that are not in the tree
MissingDependencies(j) ==
    LET name == jobs[j].Name
    IN  {dep \in DOMAIN getPackageDependencies(nodeModules[name], name) :
            nodeModules[dep] = Absent}

\* C23 as stated, for the one job of a run (no other worker is there to
\* install anything): when pm.Install has answered from the tree or from the
\* cache and the result was sent without error, every dependency the
\* manifest names has been attempted. On that path the worker has attempted
\* none, so none may be missing from the tree.
C23_DependenciesBeforeResult ==
    \A j \in JobIds : \A k \in Successes(j) :
        (Len(jobs) = 1 /\ j \in netJobs /\ emitted[j][k].FromCache)
            => MissingDependencies(j) = {}

\* how far the worker in local state w is from the end of its job, at most:
\* the steps of pm.Install, then InstallDependencies, then for each
\* dependency that is left the steps of installSimple and addPackage
StepsLeft(w) ==
    LET install == CASE w.pc = "lookup"     -> 9
                     [] w.pc = "stat"       -> 8
                     [] w.pc = "info"       -> 7
                     [] w.pc = "probe"      -> 6
                     [] w.pc = "download"   -> 5
                     [] w.pc = "extract"    -> 4
                     [] w.pc = "extracting" -> 3
                     [] w.pc = "addDep"     -> 2
                     [] OTHER               -> 0
    IN  IF w.dep = Empty /\ w.installed = Empty THEN 1000 + install
        ELSE IF w.pc = "deps" THEN 999
        ELSE 10 * Cardinality(w.todo) + install

\* the names a job may touch: its package and what the manifests of the
\* versions of its package name
DirectlyNeeded(job) ==
    {job.Name} \cup UNION {DOMAIN ManifestDeps(job.Name, v) : v \in {V100, V200}}

\* C24 (states): a worker that installs a dependency is inside installSimple
\* or at the addPackage that follows it, with the result of pm.Install for
\* its job in hand; the one job of a run changes no tree but that of its
\* package and those of the package's direct dependencies.
C24_OnlyDirectDependencies ==
    /\ \A w \in Workers :
          w.dep # Empty =>
              /\ w.pc \in {"info", "probe", "download", "extract",
                            "extracting", "addDep"}
              /\ w.installed # Empty
              /\ w.dep \in DirectlyNeeded(jobs[w.job])
    /\ Len(jobs) = 1 =>
          \A n \in AllNames :
              nodeModules[n] # startTree[n] => n \in DirectlyNeeded(jobs[1])

\* C24 (steps): every step of a worker that runs a job either sends the
\* job's result or leaves the worker nearer to the end of the job, the
\* dependencies that are left never growing: the job finishes.
C24_JobGetsNearerToItsEnd ==
    \A w \in Workers :
        (w.job # 0 /\ w.pc # "recv" /\ Steps(w) /\ runs' = runs) =>
            \/ Len(emitted'[w.job]) > Len(emitted[w.job])
            \/ \E w2 \in BagToSet(workers') :
                  /\ Enters(w2)
                  /\ w2.job = w.job
                  /\ w2.todo \subseteq w.todo \/ w.pc = "deps"
                  /\ StepsLeft(w2) < StepsLeft(w)

\* C24: a package installed as a dependency of a job never has its own
\* dependencies installed: a job installs at most its package and the
\* package's direct dependencies and finishes, also when the dependencies
\* form a cycle.
C24_DepthOne ==
    []C24_OnlyDirectDependencies /\ [][C24_JobGetsNearerToItsEnd]_vars

\* the one job of a run, for a, has ended; its dependencies b, whose manifest
\* names a, and c, whose manifest names d, are installed and recorded, and d
\* is not there
C24_Witness ==
    /\ mpc = "returned"
    /\ Len(jobs) = 1
    /\ jobs[1].Name = NameA
    /\ Successes(1) # {}
    /\ nodeModules[NameB] = V200
    /\ nodeModules[NameC] = V200
    /\ PackageKey(NameC, V200) \in DOMAIN lockFile.Packages
    /\ NameD \in DOMAIN lockFile.Packages[PackageKey(NameC, V200)].Dependencies
    /\ NameA \in DOMAIN lockFile.Packages[PackageKey(NameB, V200)].Dependencies
    /\ nodeModules[NameD] = Absent

\* a path below root, relative to root
Rel(path, root) == SubSeq(path, Len(root) + 2, Len(path))

\* the regular files below root, by relative path, and the directories
FilesUnder(fs, root) ==
    LET below == {q \in DOMAIN fs.files : Under(q, root) /\ q # root}
    IN  [r \in {Rel(q, root) : q \in below} |-> fs.files[root \o Slash \o r]]
DirsUnder(fs, root) ==
    {Rel(d, root) : d \in {q \in fs.dirs : Under(q, root) /\ q # root}}

\* the entries of the archive that the loop of extractAndCache does not
\* pass over and that are regular files, and where the destination gets them
AcceptedFiles ==
    {i \in 1..Len(xArchive) : /\ ~Skipped(xArchive[i], DestPath(xName))
                               /\ xArchive[i].Typeflag = "reg"}
RelOf(i) == Rel(TargetOf(xArchive[i]), DestPath(xName))

\* the files of the accepted entries, a later entry replacing an earlier
\* one of the same path
ExpectedFiles ==
    [r \in {RelOf(i) : i \in AcceptedFiles} |->
        LET last == CHOOSE i \in AcceptedFiles :
                        /\ RelOf(i) = r
                        /\ \A k \in AcceptedFiles : RelOf(k) = r => k <= i
        IN  xArchive[last].Data]

\* C25 as stated: when extractAndCache has returned nil, the destination
\* tree and the cache directory of the package hold the same files with the
\* same bytes and the same directories, the files are exactly those of the
\* accepted entries of the archive, and nothing older is left in either.
C25_SameTreesAsArchive ==
    xpc = "done" =>
        /\ FilesUnder(xfs, DestPath(xName))
              = FilesUnder(xfs, getPackagePath(xName, xVersion))
        /\ DirsUnder(xfs, DestPath(xName))
              = DirsUnder(xfs, getPackagePath(xName, xVersion))
        /\ FilesUnder(xfs, DestPath(xName)) = ExpectedFiles

\* parseVersionPart of the upgrader: the part is cut at its first "-" and
\* then at its first "+", and strconv.Atoi reads what is left; on an error
\* of Atoi the part counts as 0 (what is left begins with no sign, "-" and
\* "+" having been cut).
parseVersionPart(part) ==
    LET cleaned == Split(Split(part, <<"-">>)[1], <<"+">>)[1]
    IN  IF cleaned # << >> /\ \A i \in 1..Len(cleaned) : cleaned[i] \in Digits
        THEN DecVal(cleaned)
        ELSE 0

\* compareVersions of the upgrader: the loop of PackageManager.compareVersions
\* with parseVersionPart in the place of fmt.Sscanf
RECURSIVE PartsCompareFrom(_, _, _, _)
PartsCompareFrom(parts1, parts2, i, maxLen) ==
    IF i > maxLen THEN 0
    ELSE LET p1 == IF i <= Len(parts1) THEN parseVersionPart(parts1[i]) ELSE 0
             p2 == IF i <= Len(parts2) THEN parseVersionPart(parts2[i]) ELSE 0
         IN  IF p1 < p2 THEN -1
             ELSE IF p1 > p2 THEN 1
             ELSE PartsCompareFrom(parts1, parts2, i + 1, maxLen)

upgraderCompareVersions(v1, v2) ==
    LET parts1 == Split(v1, Dot)
        parts2 == Split(v2, Dot)
        maxLen == IF Len(parts2) > Len(parts1) THEN Len(parts2) ELSE Len(parts1)
    IN  PartsCompareFrom(parts1, parts2, 1, maxLen)

\* C26 as stated: the comparator of the resolution orders any two versions
\* of a registry answer as the comparison of their components does, each
\* component read as the integer left after cutting a "-" or "+" suffix, a
\* non-numeric component and a missing component counting as 0.
C26_ComponentsCutAndNumericOrZero ==
    rpc = "done" =>
        \A v1, v2 \in rAvail :
            compareVersions(v1, v2) = upgraderCompareVersions(v1, v2)

(***************************************************************************)
(* Specification of the lock store under calls from several goroutines     *)
(***************************************************************************)

\* the number of goroutines that call the lock store (the aggregator and
\* the workers of one run)
MaxCallers == 2

Callers == 1..MaxCallers

\* the largest number of addPackage calls of a behaviour of the store
MaxAdds == 2

\* a goroutine outside any call; op and err keep the method it called last
\* and whether that call returned an error
IdleCall ==
    [ op |-> "none", name |-> Empty, version |-> Empty, specifier |-> Empty,
      isDev |-> FALSE, deps |-> EmptyMap, pc |-> "idle", err |-> FALSE ]

\* the return of a call
Return(c, err) == [IdleCall EXCEPT !.op = c.op, !.err = err]

\* the methods that take lf.mu.RLock()
ReadOps == {"hasPackage", "getPackageVersion", "saveLockFile"}

\* lf.mu.Lock() goes on when no goroutine holds the mutex
CanLockShared(m) == ~m.writer

CanLock(m) == ~m.writer /\ m.readers = 0

\* lf.mu.RLock() goes on when no writer holds the mutex
CanRLock(m) == ~m.writer

InitStore ==
    /\ ResolveIdle
    /\ ExtractIdle
    /\ SchedIdle
    /\ ListIdle
    /\ TimerIdle
    /\ lockFile = FreshLockFile(0)
    /\ lockDisk = NoFile
    /\ nodeModules \in {t \in [AllNames -> {Absent, Partial, V100, V200}] :
                            /\ t[NameA] # V200
                            /\ t[NameB] = V200
                            /\ \A n \in AllNames \ PkgNames : t[n] = Absent}
    /\ lfSaved = FreshLockFile(0)
    /\ lpc = "open"
    /\ lOps = 0
    /\ lLast = NoCall
    /\ mu = FreeMutex
    /\ calls = [g \in Callers |-> IdleCall]

\* a goroutine calls a method of the lock store; saveLockFile is the last
\* call of a process, and no call begins once one of them has returned
StoreCall ==
    /\ lpc = "open"
    /\ \E g \in Callers :
        /\ calls[g].pc = "idle"
        /\ \/ /\ lOps < MaxAdds
              /\ lOps' = lOps + 1
              /\ \E name \in PkgNames, version \in {V100, V200},
                    isDev \in BOOLEAN :
                  \E specifier \in SpecifiersOf(name) :
                    calls' = [calls EXCEPT ![g] =
                        [IdleCall EXCEPT !.op = "addPackage",
                                         !.name = name,
                                         !.version = version,
                                         !.specifier = specifier,
                                         !.isDev = isDev,
                                         !.pc = "deps"]]
           \/ /\ UNCHANGED lOps
              /\ \E op \in ReadOps, name \in PkgNames, version \in {V100} :
                    calls' = [calls EXCEPT ![g] =
                        [IdleCall EXCEPT
                            !.op = op,
                            !.name = IF op = "saveLockFile" THEN Empty
                                     ELSE name,
                            !.version = IF op = "hasPackage" THEN version
                                        ELSE Empty,
                            !.pc = "rlock"]]
    /\ UNCHANGED <<lockFile, lockDisk, nodeModules, lfSaved, lpc, lLast, mu>>
    /\ UNCHANGED <<rvars, xvars, svars, listed, tvars>>

\* addPackage: deps, err := getPackageDependencies(name), an error giving
\* the empty map (getPackageDependencies returns none)
addPackageDeps ==
    /\ \E g \in Callers :
        /\ calls[g].pc = "deps"
        /\ calls' = [calls EXCEPT
              ![g].deps = getPackageDependencies(nodeModules[calls[g].name],
                                                 calls[g].name),
              ![g].pc = "lock"]
    /\ UNCHANGED <<lvars, mu>>
    /\ UNCHANGED <<rvars, xvars, svars, listed, tvars>>

\* addPackage: lf.mu.Lock()
addPackageLock ==
    /\ CanLock(mu)
    /\ \E g \in Callers :
        /\ calls[g].pc = "lock"
        /\ calls' = [calls EXCEPT ![g].pc = "packages"]
    /\ mu' = [mu EXCEPT !.writer = TRUE]
    /\ UNCHANGED lvars
    /\ UNCHANGED <<rvars, xvars, svars, listed, tvars>>

\* addPackage: lf.Packages[packageKey] = lockPkg
addPackagePackages ==
    /\ \E g \in Callers :
        LET c == calls[g]
        IN  /\ c.pc = "packages"
            /\ lockFile' = [lockFile EXCEPT !.Packages =
                  (PackageKey(c.name, c.version) :>
                      [ Name         |-> c.name,
                        Version      |-> c.version,
                        Resolved     |-> <<c.name, c.name, c.version>>,
                        Dependencies |-> c.deps,
                        DevDep       |-> c.isDev ]) @@ @]
            /\ calls' = [calls EXCEPT ![g].pc = "specifiers"]
    /\ UNCHANGED <<lockDisk, nodeModules, lfSaved, lpc, lOps, lLast, mu>>
    /\ UNCHANGED <<rvars, xvars, svars, listed, tvars>>

\* addPackage: lf.Specifiers[name] = specifier
addPackageSpecifiers ==
    /\ \E g \in Callers :
        LET c == calls[g]
        IN  /\ c.pc = "specifiers"
            /\ lockFile' = [lockFile EXCEPT !.Specifiers =
                                (c.name :> c.specifier) @@ @]
            /\ calls' = [calls EXCEPT ![g].pc = "dev"]
    /\ UNCHANGED <<lockDisk, nodeModules, lfSaved, lpc, lOps, lLast, mu>>
    /\ UNCHANGED <<rvars, xvars, svars, listed, tvars>>

\* addPackage: the write of DevPackages when isDev, `return nil` and the
\* deferred lf.mu.Unlock()
addPackageReturn ==
    /\ \E g \in Callers :
        LET c == calls[g]
        IN  /\ c.pc = "dev"
            /\ lockFile' = [lockFile EXCEPT !.DevPackages =
                                IF c.isDev THEN (c.name :> c.specifier) @@ @
                                ELSE @]
            /\ calls' = [calls EXCEPT ![g] = Return(c, FALSE)]
    /\ mu' = [mu EXCEPT !.writer = FALSE]
    /\ UNCHANGED <<lockDisk, nodeModules, lfSaved, lpc, lOps, lLast>>
    /\ UNCHANGED <<rvars, xvars, svars, listed, tvars>>

\* hasPackage, getPackageVersion, saveLockFile: lf.mu.RLock()
StoreRLock ==
    /\ CanRLock(mu)
    /\ \E g \in Callers :
        /\ calls[g].pc = "rlock"
        /\ calls' = [calls EXCEPT ![g].pc = "read"]
    /\ mu' = [mu EXCEPT !.readers = @ + 1]
    /\ UNCHANGED lvars
    /\ UNCHANGED <<rvars, xvars, svars, listed, tvars>>

\* hasPackage and getPackageVersion: the body, the return and the deferred
\* lf.mu.RUnlock()
StoreRead ==
    /\ \E g \in Callers :
        LET c == calls[g]
        IN  /\ c.pc = "read"
            /\ c.op \in {"hasPackage", "getPackageVersion"}
            /\ IF c.op = "hasPackage"
               THEN hasPackage(lockFile, c.name, c.version) \in BOOLEAN
               ELSE getPackageVersion(lockFile, c.name) # {}
            /\ calls' = [calls EXCEPT ![g] = Return(c, FALSE)]
    /\ mu' = [mu EXCEPT !.readers = @ - 1]
    /\ UNCHANGED lvars
    /\ UNCHANGED <<rvars, xvars, svars, listed, tvars>>

\* saveLockFile: the body (os.WriteFile may fail), the return and the
\* deferred lf.mu.RUnlock()
StoreSave ==
    /\ \E g \in Callers :
        /\ calls[g].pc = "read"
        /\ calls[g].op = "saveLockFile"
        /\ \E now \in Times, written \in BOOLEAN :
            LET lf == [lockFile EXCEPT !.CreatedAt = now]
            IN  /\ lockFile' = lf
                /\ lockDisk' = IF written THEN Marshal(lf) ELSE lockDisk
                /\ lfSaved' = IF written THEN lf ELSE lfSaved
                /\ calls' = [calls EXCEPT ![g] = Return(calls[g], ~written)]
    /\ mu' = [mu EXCEPT !.readers = @ - 1]
    /\ lpc' = "saved"
    /\ UNCHANGED <<nodeModules, lOps, lLast>>
    /\ UNCHANGED <<rvars, xvars, svars, listed, tvars>>

NextStore ==
    \/ StoreCall
    \/ addPackageDeps
    \/ addPackageLock
    \/ addPackagePackages
    \/ addPackageSpecifiers
    \/ addPackageReturn
    \/ StoreRLock
    \/ StoreRead
    \/ StoreSave

StoreSpec == InitStore /\ [][NextStore]_vars

\* the goroutines that hold lf.mu.RLock(), and those between the Lock and
\* the Unlock of addPackage
Readers == {g \in Callers : calls[g].pc = "read"}
Writers == {g \in Callers : calls[g].pc \in {"packages", "specifiers", "dev"}}

\* every entry has the specifier row of its name
Complete(lf) ==
    \A k \in DOMAIN lf.Packages : lf.Packages[k].Name \in DOMAIN lf.Specifiers

\* C27, the part about what a reader observes: while a goroutine is inside
\* getPackageVersion, hasPackage or saveLockFile no addPackage is between its
\* Lock and its Unlock, and every entry of LockFile.Packages has its row in
\* LockFile.Specifiers.
C27_ReadersSeeWholeWrites ==
    Readers # {} => (Writers = {} /\ Complete(lockFile))

\* C27, the part about the result: a call of addPackage that has returned
\* returned nil.
C27_NoError ==
    \A g \in Callers :
        (calls[g].op = "addPackage" /\ calls[g].pc = "idle") => ~calls[g].err

\* C27, the part about the other entries: a step changes no entry of
\* LockFile.Packages but the one under the key of the addPackage call that
\* writes, and takes none away.
C27_OtherKeysKept ==
    \A k \in DOMAIN lockFile.Packages :
        /\ k \in DOMAIN lockFile'.Packages
        /\ lockFile'.Packages[k] # lockFile.Packages[k]
            => \E g \in Callers :
                  /\ calls[g].pc = "packages"
                  /\ calls'[g].pc = "specifiers"
                  /\ k = PackageKey(calls[g].name, calls[g].version)

\* C27: addPackage never returns an error, also when the manifest of the
\* package is absent or unreadable; its writes of the entry and of the
\* specifier row are one critical section that no concurrent
\* getPackageVersion, hasPackage or saveLockFile observes half done; and it
\* changes the entry of no other key.
C27_AddPackageIsOneWrite ==
    /\ [](C27_ReadersSeeWholeWrites /\ C27_NoError)
    /\ [][C27_OtherKeysKept]_vars

\* a goroutine reads the store, which holds the entry of a package whose
\* manifest was absent or unreadable, while another is inside addPackage
\* for a second key and waits for the mutex
C27_Witness ==
    \E g, h \in Callers :
        /\ calls[g].pc = "read"
        /\ calls[h].op = "addPackage" /\ calls[h].pc = "lock"
        /\ \E k \in DOMAIN lockFile.Packages :
              /\ nodeModules[lockFile.Packages[k].Name] \in {Absent, Partial}
              /\ lockFile.Packages[k].Dependencies = EmptyMap
              /\ k # PackageKey(calls[h].name, calls[h].version)

\* the number of results that the workers have sent
RECURSIVE SentUpTo(_)
SentUpTo(j) == IF j = 0 THEN 0 ELSE Len(emitted[j]) + SentUpTo(j - 1)

\* the number of results that showProgress has received
Received == SentUpTo(Len(jobs)) - Len(resultChan)

\* C28: at every point of showProgress completed + failed is the number of
\* results received so far and cached + downloaded is completed; when it
\* prints the final summary (the channel of results is closed and empty)
\* completed + failed is the number of jobs submitted.
C28_CountersAddUp ==
    /\ counts.completed + counts.failed = Received
    /\ counts.cached + counts.downloaded = counts.completed
    /\ (runs > 0 /\ apc = "done") =>
            counts.completed + counts.failed = Len(jobs)

\* the final summary of a run of two jobs, one failed and one answered
\* from the tree or the cache
C28_Witness ==
    /\ runs > 0
    /\ apc = "done"
    /\ Len(jobs) = 2
    /\ counts.failed = 1
    /\ counts.cached = 1

(***************************************************************************)
(* Specification of the cache directory and its listing                    *)
(***************************************************************************)

\* the largest number of packages in the cache
MaxCached == 3

NameAB == <<"a", "-", "b">>
ScopedA == <<"@", "s", "/", "a">>

\* the packages that may be stored: a plain, a hyphenated and a scoped name,
\* plain versions and one with a pre-release suffix
CachedNames == {NameA, NameAB, ScopedA}
CachedVersions == {V100, V200, V190b}

\* the (name, version) pairs whose cache directory exists
Stored(fs) ==
    {nv \in CachedNames \X CachedVersions :
        getPackagePath(nv[1], nv[2]) \in fs.dirs}

InitCache ==
    /\ ResolveIdle
    /\ LockIdle
    /\ SchedIdle
    /\ StoreIdle
    /\ TimerIdle
    /\ xName = NameA
    /\ xVersion = V100
    /\ xArchive = << >>
    /\ xNext = 1
    /\ xfs = MkdirAll(EmptyFS, CacheDir).fs
    /\ xpc = "idle"
    /\ listed = NotListed

\* a package is stored in the cache: the os.MkdirAll of extractAndCache
\* makes its cache directory
CacheStore ==
    /\ ~listed.called
    /\ Cardinality(Stored(xfs)) < MaxCached
    /\ \E name \in CachedNames, version \in CachedVersions :
        /\ <<name, version>> \notin Stored(xfs)
        /\ xfs' = MkdirAll(xfs, getPackagePath(name, version)).fs
    /\ UNCHANGED <<xName, xVersion, xArchive, xNext, xpc, listed>>
    /\ UNCHANGED <<rvars, lvars, svars, mvars, tvars>>

\* the callback of filepath.Walk in listPackages on the directory path: the
\* packages it appends
ListedAt(path) ==
    LET relPath == Rel(path, CacheDir)
        parts   == Split(relPath, <<"-">>)
    IN  IF ~Contains(relPath, Slash) /\ Len(parts) >= 3
        THEN {[ Name    |-> JoinSep(SubSeq(parts, 1, Len(parts) - 2), <<"-">>),
                Version |-> parts[Len(parts) - 1],
                Path    |-> path ]}
        ELSE {}

\* Cache.listPackages: filepath.Walk visits every directory below cacheDir
ListPackages(fs) ==
    UNION {ListedAt(d) : d \in {q \in fs.dirs : Under(q, CacheDir)
                                               /\ q # CacheDir}}

listPackages ==
    /\ ~listed.called
    /\ listed' = [called |-> TRUE, packages |-> ListPackages(xfs)]
    /\ UNCHANGED xvars
    /\ UNCHANGED <<rvars, lvars, svars, mvars, tvars>>

NextCache == CacheStore \/ listPackages

CacheSpec == InitCache /\ [][NextCache]_vars

\* C29 as stated: listPackages returns exactly the (name, version) pairs
\* whose directory exists in the cache root, names with hyphens, scoped
\* names and versions with hyphens included.
C29_ListIsWhatWasStored ==
    listed.called =>
        {<<q.Name, q.Version>> : q \in listed.packages} = Stored(xfs)

(***************************************************************************)
(* Specification of the Timer of `gpm install <specs>`                     *)
(***************************************************************************)

\* the largest number of Pause and Resume pairs of the worker
MaxPauses == 2

\* len(frames) in Timer.animate
NumFrames == 10

\* the goroutines: main (handleInstall) calls Start and, when the workers
\* have ended, Stop; animate is started by Start; the worker calls Pause
\* and Resume around pm.Install
InitTimer ==
    /\ ResolveIdle
    /\ LockIdle
    /\ ExtractIdle
    /\ SchedIdle
    /\ StoreIdle
    /\ ListIdle
    /\ timer = NewTimer
    /\ tgo = [ main |-> "Start", animate |-> "none", worker |-> "idle",
               frameIndex |-> 0, pauses |-> 0 ]

\* t.mu.Lock() by the goroutine g, which is at the position from and goes
\* on at the position to
TimerLock(g, from, to) ==
    /\ tgo[g] = from
    /\ timer.mu = "free"
    /\ timer' = [timer EXCEPT !.mu = g]
    /\ tgo' = [tgo EXCEPT ![g] = to]
    /\ UNCHANGED <<rvars, lvars, xvars, svars, mvars, listed>>

\* the first statement of Start, Stop, Pause, Resume and of the tick of
\* animate
TimerLocks ==
    \/ TimerLock("main", "Start", "Start:locked")
    \/ TimerLock("main", "Stop", "Stop:locked")
    \/ TimerLock("worker", "Pause", "Pause:locked")
    \/ TimerLock("worker", "Resume", "Resume:locked")
    \/ TimerLock("animate", "tick", "tick:locked")

\* Timer.Start after the Lock (the Timer is new: running is false)
TimerStart ==
    /\ tgo.main = "Start:locked"
    /\ IF timer.running
       THEN /\ timer' = [timer EXCEPT !.mu = "free"]
            /\ tgo' = [tgo EXCEPT !.main = "installing"]
       ELSE /\ timer' = [timer EXCEPT !.running = TRUE, !.wg = @ + 1,
                                      !.mu = "free"]
            /\ tgo' = [tgo EXCEPT !.main = "installing",
                                  !.animate = "select"]
    /\ UNCHANGED <<rvars, lvars, xvars, svars, mvars, listed>>

\* the worker, between Start and Stop of main, comes to pi.timer.Pause()
WorkerPauses ==
    /\ tgo.main = "installing"
    /\ tgo.worker = "idle"
    /\ tgo.pauses < MaxPauses
    /\ tgo' = [tgo EXCEPT !.worker = "Pause", !.pauses = @ + 1]
    /\ UNCHANGED timer
    /\ UNCHANGED <<rvars, lvars, xvars, svars, mvars, listed>>

\* Timer.Pause after the Lock; pm.Install follows, then pi.timer.Resume()
TimerPause ==
    /\ tgo.worker = "Pause:locked"
    /\ timer' = [timer EXCEPT
                    !.paused = IF timer.running /\ ~timer.paused THEN TRUE
                               ELSE @,
                    !.mu = "free"]
    /\ tgo' = [tgo EXCEPT !.worker = "Resume"]
    /\ UNCHANGED <<rvars, lvars, xvars, svars, mvars, listed>>

\* Timer.Resume after the Lock
TimerResume ==
    /\ tgo.worker = "Resume:locked"
    /\ timer' = [timer EXCEPT
                    !.paused = IF timer.running /\ timer.paused THEN FALSE
                               ELSE @,
                    !.mu = "free"]
    /\ tgo' = [tgo EXCEPT !.worker = "idle"]
    /\ UNCHANGED <<rvars, lvars, xvars, svars, mvars, listed>>

\* animate: the select takes `case <-ticker.C`
AnimateTick ==
    /\ tgo.animate = "select"
    /\ tgo' = [tgo EXCEPT !.animate = "tick"]
    /\ UNCHANGED timer
    /\ UNCHANGED <<rvars, lvars, xvars, svars, mvars, listed>>

\* animate: the tick after the Lock: nothing when paused, else the frame is
\* printed and frameIndex goes up (kept modulo len(frames), which is all
\* that is read of it); then the Unlock
AnimateFrame ==
    /\ tgo.animate = "tick:locked"
    /\ timer' = [timer EXCEPT !.mu = "free"]
    /\ tgo' = [tgo EXCEPT
                  !.animate = "select",
                  !.frameIndex = IF timer.paused THEN @
                                 ELSE (@ + 1) % NumFrames]
    /\ UNCHANGED <<rvars, lvars, xvars, svars, mvars, listed>>

\* InstallFromSpecs has returned (the workers have ended): main comes to
\* timer.Stop()
MainStops ==
    /\ tgo.main = "installing"
    /\ tgo.worker = "idle"
    /\ tgo' = [tgo EXCEPT !.main = "Stop"]
    /\ UNCHANGED timer
    /\ UNCHANGED <<rvars, lvars, xvars, svars, mvars, listed>>

\* Timer.Stop after the Lock: `return 0` when not running, else running
\* becomes false and Stop comes to the send on stopChan
TimerStop ==
    /\ tgo.main = "Stop:locked"
    /\ IF ~timer.running
       THEN /\ timer' = [timer EXCEPT !.mu = "free"]
            /\ tgo' = [tgo EXCEPT !.main = "stopped"]
       ELSE /\ timer' = [timer EXCEPT !.running = FALSE]
            /\ tgo' = [tgo EXCEPT !.main = "Stop:send"]
    /\ UNCHANGED <<rvars, lvars, xvars, svars, mvars, listed>>

\* `t.stopChan <- true` of Stop meets `case <-t.stopChan` of animate (the
\* channel has no buffer); animate returns, its deferred wg.Done() runs
StopMeetsAnimate ==
    /\ tgo.main = "Stop:send"
    /\ tgo.animate = "select"
    /\ timer' = [timer EXCEPT !.wg = @ - 1]
    /\ tgo' = [tgo EXCEPT !.main = "Stop:wait", !.animate = "returned"]
    /\ UNCHANGED <<rvars, lvars, xvars, svars, mvars, listed>>

\* Stop: t.wg.Wait() returns, then the return and the deferred Unlock
TimerStopReturns ==
    /\ tgo.main = "Stop:wait"
    /\ timer.wg = 0
    /\ timer' = [timer EXCEPT !.mu = "free"]
    /\ tgo' = [tgo EXCEPT !.main = "stopped"]
    /\ UNCHANGED <<rvars, lvars, xvars, svars, mvars, listed>>

NextTimer ==
    \/ TimerLocks
    \/ TimerStart
    \/ WorkerPauses
    \/ TimerPause
    \/ TimerResume
    \/ AnimateTick
    \/ AnimateFrame
    \/ MainStops
    \/ TimerStop
    \/ StopMeetsAnimate
    \/ TimerStopReturns

TimerSpec == InitTimer /\ [][NextTimer]_vars

\* C30 as stated: in no reachable state does Stop hold the mutex and wait
\* to send on stopChan while animate waits for the mutex (neither can then
\* take another step, and Stop does not return).
C30_StopNotStuckWithAnimate ==
    ~ ( /\ tgo.main = "Stop:send"
        /\ timer.mu = "main"
        /\ tgo.animate = "tick" )

\* C31 as stated: during extractAndCache whatever is in the cache root is
\* inside the cache directory of the package being extracted: no entry of
\* the archive is written beside it.
C31_CacheWritesStayInside ==
    \A q \in (DOMAIN xfs.files) \cup xfs.dirs :
        (Under(q, CacheDir) /\ q # CacheDir)
            => Under(q, getPackagePath(xName, xVersion))

(***************************************************************************)
(* The installer under fair scheduling                                     *)
(***************************************************************************)

\* the steps of the goroutines of a process (whether another process is
\* started is for the user to decide)
ProcessStep ==
    \/ SendJob
    \/ CloseJobs
    \/ CloseResults
    \/ InstallPackagesReturn
    \/ saveLockFile
    \/ WorkerReceive
    \/ WorkerExit
    \/ WorkerGetPackageVersion
    \/ WorkerIsInstalled
    \/ InstallGetPackageInfo
    \/ InstallProbe
    \/ DownloadStart
    \/ ExtractBegin
    \/ ExtractEnd
    \/ InstallDependencies
    \/ NextDependency
    \/ AddDependency
    \/ ShowProgressResult
    \/ ShowProgressDone

\* the command as one process runs it: handleInstall is called once
handleInstallOnce == runs = 0 /\ handleInstall

NextFair ==
    \/ handleInstallOnce
    \/ ProcessStep

\* a goroutine that can go on is scheduled; every step of the pipeline of
\* a job ends (a request is answered or fails)
FairSpec == Init /\ [][NextFair]_vars /\ WF_vars(ProcessStep)

\* InstallPackages has returned, with every worker ended, the channel of
\* results closed and drained and showProgress ended
AllEnded ==
    /\ mpc = "returned"
    /\ \A w \in Workers : w.pc = "exit"
    /\ resultsClosed
    /\ resultChan = << >>
    /\ apc = "done"

\* C32: under fair scheduling a call of InstallPackages returns: every
\* worker ends, the channel of results is closed, showProgress drains it
\* and closes progressDone; neither the producer nor a worker waits for
\* ever at a channel.
C32_InstallPackagesReturns == (mpc \in {"send", "wait"}) ~> AllEnded

\* InstallPackages has returned from a run of MaxJobs jobs in which both a
\* failure and a success were reported
C32_Witness ==
    /\ AllEnded
    /\ Len(jobs) = MaxJobs
    /\ counts.failed > 0
    /\ counts.completed > 0

(***************************************************************************)
(* The channels of InstallPackages                                         *)
(***************************************************************************)

\* a step of one call of InstallPackages that sends on the channel ch
SendsOn(ch, chNext) == runs' = runs /\ Len(chNext) > Len(ch)

C33_NoSendAfterClose ==
    /\ SendsOn(resultChan, resultChan') => ~resultsClosed /\ ~resultsClosed'
    /\ SendsOn(jobChan, jobChan') => ~jobsClosed /\ ~jobsClosed'
    /\ (runs' = runs /\ ~resultsClosed /\ resultsClosed')
            => \A w \in Workers : w.pc = "exit"

\* C33: no result is sent on the result channel once it is closed and no job
\* on the job channel once it is closed; the result channel is closed only
\* when every worker has left its loop, and while it is closed every worker
\* has.
C33_ChannelsClosedAfterLastSend ==
    /\ [](resultsClosed => \A w \in Workers : w.pc = "exit")
    /\ [][C33_NoSendAfterClose]_vars

\* both channels are closed after two jobs were sent and each gave results,
\* one of them a failure
C33_Witness ==
    /\ resultsClosed
    /\ jobsClosed
    /\ Len(jobs) = MaxJobs
    /\ \A j \in 1..Len(jobs) : emitted[j] # << >>
    /\ \E j \in 1..Len(jobs) : emitted[j][1].Error

(***************************************************************************)
(* gpm install without arguments (installFromPackageJSON)                  *)
(***************************************************************************)

\* the ranges a package.json declares
DeclaredRanges == {V100, Caret(V100), Tilde(V100), Latest}

\* the tables of a package.json with at most MaxJobs rows
DepTables ==
    UNION {[S -> DeclaredRanges] : S \in SUBSET PkgNames}
DevTables == {EmptyMap, [n \in {NameB} |-> Caret(V100)]}
Rows(pkg) ==
    Cardinality(DOMAIN pkg.Dependencies)
        + Cardinality(DOMAIN pkg.DevDependencies)
Manifests ==
    {pkg \in [Dependencies : DepTables, DevDependencies : DevTables] :
        Rows(pkg) \in 1..MaxJobs}

\* installFromPackageJSON: the job of one row of a table
ManifestJob(name, version, isDev) ==
    LET cleanVersion == TrimPrefix(TrimPrefix(version, <<"^">>), <<"~">>)
        packageSpec  ==
            IF /\ version # Empty
               /\ version # Latest
               /\ cleanVersion # version
               /\ cleanVersion # Empty
            THEN name \o <<"@">> \o cleanVersion
            ELSE name
        p == parsePackageSpec(packageSpec)
    IN  [ Name         |-> p[1],
          Version      |-> p[2],
          IsDev        |-> isDev,
          OriginalSpec |-> IF p[2] = Latest THEN p[1] ELSE packageSpec ]

\* `for name, version := range table`: the jobs of a table in the orders
\* the iteration over the map can take
TableJobs(table, isDev) ==
    {[i \in 1..Cardinality(DOMAIN table) |->
        ManifestJob(order[i], table[order[i]], isDev)] :
        order \in {o \in [1..Cardinality(DOMAIN table) -> DOMAIN table] :
                     \A i, j \in DOMAIN o : i # j => o[i] # o[j]}}

\* installFromPackageJSON up to the start of the goroutines of
\* InstallPackages: the jobs of the dependencies, then those of the
\* devDependencies
installFromPackageJSON ==
    /\ mpc = "start"
    /\ runs = 0
    /\ Rows(packageJSON) > 0
    /\ \E deps \in TableJobs(packageJSON.Dependencies, FALSE),
          devs \in TableJobs(packageJSON.DevDependencies, TRUE) :
         StartInstall(deps \o devs)

InitManifest ==
    /\ OthersIdle
    /\ ResolveIdle
    /\ ExtractIdle
    /\ LockIdle
    /\ NoRunYet
    /\ packageJSON \in Manifests

NextManifest ==
    \/ installFromPackageJSON
    \/ ProcessStep

ManifestSpec == InitManifest /\ [][NextManifest]_vars

\* C34 as stated: a run of installFromPackageJSON, which calls
\* InstallPackages with writeToPackageJSON = false, leaves package.json as it
\* was: no step of the run changes a declared range.
C34_ManifestUnchanged == [][packageJSON' = packageJSON]_vars

\* the jobs js have one for the row of name in a table, asking for the
\* version the row declares
Requested(js, table, name, isDev) ==
    \E j \in 1..Len(js) :
        /\ js[j].Name = name
        /\ js[j].IsDev = isDev
        /\ js[j].Version = table[name]

\* C38 as stated: the jobs that installFromPackageJSON builds ask, for every
\* row of package.json, for the version or range the row declares: 1.0.0
\* for a row pinned to 1.0.0, ^1.0.0 or ~1.0.0 for a row declaring that
\* range.
C38_JobsRequestDeclared ==
    [][(runs' = runs + 1) =>
         /\ \A name \in DOMAIN packageJSON.Dependencies :
               Requested(jobs', packageJSON.Dependencies, name, FALSE)
         /\ \A name \in DOMAIN packageJSON.DevDependencies :
               Requested(jobs', packageJSON.DevDependencies, name, TRUE)]_vars

(***************************************************************************)
(* What a failed job leaves                                                *)
(***************************************************************************)

\* C35 as stated, for a run of one job (nothing else writes the package's
\* tree between the start of the run and the job's end): when the job has
\* failed and a version of its package was installed at the start, that tree
\* is still the one under node_modules/<name>.
C35_FailedJobKeepsInstalledTree ==
    (/\ Len(jobs) = 1
     /\ emitted[1] # << >>
     /\ emitted[1][1].Error
     /\ startTree[jobs[1].Name] \notin {Absent, Partial})
        => nodeModules[jobs[1].Name] = startTree[jobs[1].Name]

(***************************************************************************)
(* The resolution and the order of the map                                 *)
(***************************************************************************)

\* C36 as stated: for a range and a set of available versions,
\* resolveVersionRange has one result, whatever the order in which the map
\* of the versions is iterated.
C36_ResolutionHasOneResult ==
    Cardinality(resolveVersionRange(rRange, rAvail)) = 1

(***************************************************************************)
(* The dependencies and the ranges that declare them                       *)
(***************************************************************************)

\* the range that the manifest of the package of the worker's job declares
\* for the dependency the worker is installing
DeclaredRange(w) == ManifestDeps(jobs[w.job].Name, w.installed)[w.dep]

\* the worker w takes the step of InstallDependencies that records its
\* dependency
RecordsDependency(w) ==
    /\ runs' = runs
    /\ w.pc = "addDep"
    /\ workers' = Move(w, AfterDep([w EXCEPT !.dep = Empty, !.ver = Empty]).next)
    /\ lockFile' # lockFile

\* C37 as stated: a dependency that InstallDependencies has installed and
\* records is at a version that the range declared for it accepts, and the
\* specifier recorded for it is that range.
C37_DependencyAtDeclaredRange ==
    [][\A w \in Workers :
         RecordsDependency(w) =>
            /\ Accepts(DeclaredRange(w), {w.ver}) # {}
            /\ lockFile'.Specifiers[w.dep] = DeclaredRange(w)]_vars

(***************************************************************************)
(* The rows of DevPackages                                                 *)
(***************************************************************************)

\* the step is the call addPackage(name, version, specifier, isDev) on the
\* lock file, and it changes the lock file
IsAddPackage(name, version, specifier, isDev) ==
    /\ lOps' = lOps + 1
    /\ lockFile' # lockFile
    /\ lockFile' = addPackage(lockFile, name, version, specifier, isDev,
                       getPackageDependencies(nodeModules[name], name))

\* C39 as stated: after a call of addPackage for a name the lock file has a
\* row of DevPackages for the name exactly when the call was made with
\* isDev = true: adding with isDev = false leaves no dev row.
C39_DevRowFollowsLastAdd ==
    [][\A name \in PkgNames, version \in {V100, V200}, isDev \in BOOLEAN :
         \A specifier \in SpecifiersOf(name) :
            IsAddPackage(name, version, specifier, isDev) =>
                (name \in DOMAIN lockFile'.DevPackages <=> isDev)]_vars

====
